---- MODULE Spec2Model ----
(***************************************************************************)
(* Observix: control-plane assignment service, agent reconciler and        *)
(* pipeline runner.                                                        *)
(*                                                                         *)
(* Three specifications share the variables below:                         *)
(*   SpecCP     - the control-plane HTTP handlers over the database        *)
(*   SpecAgent  - one agent's control loop against that control plane      *)
(*   SpecRunner - one PipelineRunner with its source, processor and        *)
(*                destination                                              *)
(***************************************************************************)
EXTENDS Integers, Sequences, FiniteSets, TLC

(***************************************************************************)
(* Bounds of the model.                                                    *)
(***************************************************************************)
MaxClock       == 1   \* wall-clock readings are 0..MaxClock
MaxPipelines   == 2   \* pipeline rows ever created
MaxAssignments == 2   \* assignment ids ever generated
MaxVersion     == 2   \* update_pipeline stops being called at this version
MaxEvents      == 3   \* events the source receives
MaxFailures    == 2   \* destination.send calls that fail
MaxDocs        == 2   \* documents the indexer returns for one raw line
MaxNow         == 8   \* readings of time.monotonic(), in quarters of a second
MaxSessions    == 2   \* create_assignment requests in progress at once

AgentIds == {"a1", "a2"}
Regions  == {"eu", "us"}
Names    == {"p1"}

\* each agent process is configured with one region (agent.py: self.region)
RegionOf == [a \in AgentIds |-> IF a = "a1" THEN "eu" ELSE "us"]

(***************************************************************************)
(* JSON values of a pipeline spec blob.  A mapping is a function from key  *)
(* strings to values; a value is a section ({type, options}), a nested     *)
(* mapping, or a scalar.                                                   *)
(***************************************************************************)
Sec(ty, port) == [k |-> "sec", type |-> ty, port |-> port]
Map(m)        == [k |-> "map", m |-> m]
Scalar(x)     == [k |-> "scalar", x |-> x]
EmptyDict     == << >>

Has(d, key) == key \in DOMAIN d

\* dict.pop(key, None)
Pop(d, key) == [x \in (DOMAIN d) \ {key} |-> d[x]]

CanonSyslog == ("source" :> Sec("syslog_udp", 5514)) @@ ("destination" :> Sec("file", 0))
CanonTail   == ("source" :> Sec("file_tail", 0)) @@ ("destination" :> Sec("http", 0))
            @@ ("name" :> Scalar("x")) @@ ("version" :> Scalar(7))
NoDest      == ("source" :> Sec("syslog_udp", 5514))
Listener    == ("source" :> Sec("http_listener", 8080)) @@ ("destination" :> Sec("file", 0))

\* request bodies offered to create_pipeline / update_pipeline
Bodies == { [enabled |-> TRUE,  spec |-> ("spec" :> Map(CanonTail))],
            [enabled |-> FALSE, spec |-> CanonSyslog],
            [enabled |-> TRUE,  spec |-> NoDest] }

\* the (agent, region) pairs assignments are made for: the observed agent in its own
\* region, the same agent in another region, and another agent
Targets == { << "a1", "eu" >>, << "a1", "us" >>, << "a2", "us" >> }

(***************************************************************************)
(* State.                                                                  *)
(***************************************************************************)
VARIABLES
    clock,        \* _utcnow()
    agents,       \* table agents: id -> row
    pipelines,    \* table pipelines: id -> row
    assignments,  \* table assignments, rows in insertion order
    nextAsgId,    \* assignment ids generated so far (uuid4 never repeats)
    updates,      \* history: update_pipeline calls applied, per pipeline
    pulled,       \* history: the last successful pull of the observed agent
    \* ---- the agent process (agent.py) ----
    agentPc,      \* "boot" before run_forever's first register, then "loop"
    etagApplied,  \* Agent._etag
    runners,      \* Agent._pipelines: pipeline_id -> PipelineRunner
    receivers,    \* the syslog sockets bound and their receiver threads still running
    lastReconcile, \* history: how the last _apply_assignments ended, and on what response
    \* ---- one PipelineRunner (pipeline.py) with its source and destination ----
    now,          \* time.monotonic(), in units of 1/Second
    runner_enabled, \* PipelineRunner.enabled
    mode,         \* the processor built: "raw" or "indexed"
    queue,        \* the source's queue of received events not yet polled
    emitted,      \* events the source has received (they are numbered in arrival order)
    max_queue_size, \* the maxsize the source's Queue was built with
    discarded,    \* history: events that were received and never queued
    polling,      \* a poll call in progress: what it has taken so far
    ingest,       \* the HTTP ingest request in progress: events left to put, accepted
    buffer,       \* PipelineRunner._buffer
    last_flush,   \* PipelineRunner._last_flush
    send_attempt, \* PipelineRunner._send_attempt
    next_send_at, \* PipelineRunner._next_send_at
    inflight,     \* PipelineRunner._inflight
    metrics,      \* PipelineRunner._metrics
    last_err,     \* PipelineRunner._last_err
    delivered,    \* history: the batches destination.send accepted, in order
    lastSend,     \* history: the destination.send call of the latest step, if it made one
    sending,      \* history: the send counters when the latest batch became inflight,
                  \* and the destination.send calls for it that raised since
    \* ---- create_assignment requests, each in its own database session ----
    sessions,     \* per request slot: idle, or the row the handler is about to add
    lastResponse, \* history: the answer the latest step gave to the request it served
    \* ---- run_forever's pass over the runners ----
    tickLog,      \* history: the latest pass of run_forever over its runners
    thread        \* the control thread inside a pass: the runners left to tick, the
                  \* send it waits for; history: when each runner's tick last began

cpVars    == << clock, agents, pipelines, assignments, nextAsgId, updates, pulled >>
agentVars == << agentPc, etagApplied, runners, receivers, lastReconcile >>
qVars     == << max_queue_size, discarded, polling, ingest >>
srcVars   == << now, queue, emitted, qVars >>
runVars   == << runner_enabled, mode, buffer, last_flush, send_attempt, next_send_at,
                inflight, metrics, last_err >>
dstVars   == << delivered, lastSend, sending >>
runnerVars == << srcVars, runVars, dstVars >>
txnVars   == << sessions, lastResponse >>
loopVars  == << tickLog, thread >>
vars      == << cpVars, agentVars, runnerVars, txnVars, loopVars >>

\* the agent whose pulls are recorded (agents are interchangeable)
Observed == "a1"

NoPull == [n |-> 0]

(***************************************************************************)
(* api.py helpers.                                                         *)
(***************************************************************************)
IsDict(v) == v.k = "map"

LooksCanonical(d) == Has(d, "source") \/ Has(d, "destination") \/ Has(d, "processor")

\* one iteration of the unwrap loop: the mapping to continue with
Unwrap(d) == IF (~LooksCanonical(d)) /\ Has(d, "spec") /\ IsDict(d["spec"])
             THEN d["spec"].m ELSE d

\* a loop that unwraps one level only
_normalize_one_level(spec) == Unwrap(spec)

\* for _ in range(2): unwrap when the level does not look canonical
_normalize_pipeline_spec_dict(spec) == Unwrap(Unwrap(spec))

_sanitize_pipeline_spec_dict(spec) ==
    Pop(Pop(Pop(Pop(_normalize_pipeline_spec_dict(spec),
        "pipeline_id"), "name"), "enabled"), "version")

SourceTypes      == {"file_tail", "syslog_udp"}               \* PipelineSource.type
DestinationTypes == {"http", "syslog_udp", "file"}            \* PipelineDestination.type

\* spec.get(key) or {} is a non-empty mapping
Truthy(d, key) == Has(d, key) /\ d[key].k = "sec"

\* _to_pipeline_spec: the agent-facing DTO, or the 500 it raises
_to_pipeline_spec(pid) ==
    LET pipe == pipelines[pid]
        spec == _normalize_pipeline_spec_dict(pipe.spec)
    IN  IF ~Truthy(spec, "source") \/ ~Truthy(spec, "destination")
        THEN [ok |-> FALSE, detail |-> "pipeline_spec_invalid_missing_source_or_destination"]
        ELSE IF spec["source"].type \notin SourceTypes
                \/ spec["destination"].type \notin DestinationTypes
        THEN [ok |-> FALSE, detail |-> "validation_error"]
        ELSE [ok |-> TRUE,
              pipeline_id |-> pid,
              name        |-> pipe.name,
              enabled     |-> pipe.enabled,
              source      |-> spec["source"],
              destination |-> spec["destination"]]

\* the selection without its region filter
SelectedAnyRegion(a, r) ==
    SelectSeq(assignments, LAMBDA row : row.agent_id = a)

\* rows of assignments JOIN pipelines selected for (agent_id, region)
Selected(a, r) ==
    SelectSeq(assignments, LAMBDA row : row.agent_id = a /\ row.region = r)

RECURSIVE InsertByCreatedAt(_, _)
InsertByCreatedAt(sorted, row) ==
    IF sorted = << >> THEN << row >>
    ELSE IF sorted[Len(sorted)].created_at <= row.created_at
         THEN Append(sorted, row)
         ELSE Append(InsertByCreatedAt(SubSeq(sorted, 1, Len(sorted) - 1), row),
                     sorted[Len(sorted)])

RECURSIVE OrderByCreatedAt(_)
\* ORDER BY assignments.created_at ASC (rows of equal created_at stay in table order)
OrderByCreatedAt(rows) ==
    IF rows = << >> THEN << >>
    ELSE InsertByCreatedAt(OrderByCreatedAt(SubSeq(rows, 1, Len(rows) - 1)), rows[Len(rows)])

\* an etag_basis entry that leaves the pipeline's version and updated_at out
EtagRowWithoutVersion(asg, pipe) ==
    [assignment_id |-> asg.id,
     pipeline_id   |-> asg.pipeline_id]

\* an etag_basis entry that also carries the agent's last_seen_at
EtagRowWithLastSeen(asg, pipe) ==
    [assignment_id |-> asg.id,
     pipeline_id   |-> asg.pipeline_id,
     version       |-> pipe.version,
     updated_at    |-> pipe.updated_at,
     last_seen_at  |-> agents[asg.agent_id].last_seen_at]

\* one entry of etag_basis
EtagRow(asg, pipe) ==
    [assignment_id |-> asg.id,
     pipeline_id   |-> asg.pipeline_id,
     version       |-> pipe.version,
     updated_at    |-> pipe.updated_at]

\* _etag: SHA-256 of the canonical JSON, taken as injective: the payload itself
_etag(payload) == payload

\* what an observer of (a, r) can tell apart: which assignments are bound, and how
\* many times update_pipeline was applied to each bound pipeline
Bound(a, r) ==
    { << Selected(a, r)[i].id, updates[Selected(a, r)[i].pipeline_id] >> :
        i \in 1..Len(Selected(a, r)) }

(***************************************************************************)
(* Control-plane handlers.  Each is one transaction (session_scope): the   *)
(* action is its committed effect, <handler>_response what it answers.     *)
(***************************************************************************)
\* _upsert_agent
\* Agent._capabilities
_capabilities ==
    << "file_tail", "syslog_udp", "http_listener", "http", "file", "syslog_udp_dest" >>

\* each agent process is configured with an admin port (agent.py: self.admin_port)
AdminPortOf == [a \in AgentIds |-> IF a = "a1" THEN 8081 ELSE 8082]

\* Agent.register: the request it posts
AgentRegisterRequest(a) ==
    [agent_id |-> a, region |-> RegionOf[a], admin_port |-> AdminPortOf[a],
     capabilities |-> _capabilities]

\* Agent.heartbeat: the payload it posts
HeartbeatPayload(a) ==
    [region |-> RegionOf[a], admin_port |-> AdminPortOf[a],
     capabilities |-> _capabilities]

\* _upsert_agent; AgentRegisterRequest has no tenant_id, so getattr gives None
_upsert_agent(req) ==
    IF req.agent_id \in DOMAIN agents
    THEN [agents EXCEPT ![req.agent_id].region = req.region,
                        ![req.agent_id].admin_port = req.admin_port,
                        ![req.agent_id].capabilities = [items |-> req.capabilities],
                        ![req.agent_id].last_seen_at = clock]
    ELSE agents @@ (req.agent_id :>
                      [region |-> req.region, tenant_id |-> "None",
                       admin_port |-> req.admin_port,
                       capabilities |-> [items |-> req.capabilities],
                       last_seen_at |-> clock])

register_agent(req) ==
    /\ agents' = _upsert_agent(req)
    /\ UNCHANGED << clock, pipelines, assignments, nextAsgId, updates, pulled >>

\* a heartbeat that registers the agent it does not know
heartbeat_upserting(a, req) ==
    /\ agents' = _upsert_agent([agent_id |-> a, region |-> req.region,
                                admin_port |-> req.admin_port,
                                capabilities |-> req.capabilities])
    /\ UNCHANGED << clock, pipelines, assignments, nextAsgId, updates, pulled >>

heartbeat(a, req) ==
    /\ agents' = IF a \notin DOMAIN agents
                  THEN agents    \* 404 agent_not_found
                  ELSE [agents EXCEPT ![a].region = req.region,
                                      ![a].admin_port = req.admin_port,
                                      ![a].capabilities = [items |-> req.capabilities],
                                      ![a].last_seen_at = clock]
    /\ UNCHANGED << clock, pipelines, assignments, nextAsgId, updates, pulled >>

\* the answer of heartbeat(a, req) in the current state
heartbeat_response(a) ==
    IF a \notin DOMAIN agents
    THEN [status |-> 404, detail |-> "agent_not_found"]
    ELSE [status |-> 200, ok |-> TRUE]

\* for asg, pipe in rows: the first row whose _to_pipeline_spec raises
FirstUnmappable(rows) ==
    CHOOSE i \in 1..Len(rows) :
        /\ ~_to_pipeline_spec(rows[i].pipeline_id).ok
        /\ \A j \in 1..(i - 1) : _to_pipeline_spec(rows[j].pipeline_id).ok

\* the answer of get_assignments(a, r) in the current state
get_assignments_response(a, r) ==
    LET rows == OrderByCreatedAt(Selected(a, r))
    IN  IF a \notin DOMAIN agents
        THEN [status |-> 404, detail |-> "agent_not_found"]       \* _touch_agent
        ELSE IF \E i \in 1..Len(rows) : ~_to_pipeline_spec(rows[i].pipeline_id).ok
        THEN \* the first row that cannot be mapped ends the loop
             [status |-> 500,
              detail |-> _to_pipeline_spec(rows[FirstUnmappable(rows)].pipeline_id).detail]
        ELSE [status   |-> 200,
              agent_id |-> a,
              region   |-> r,
              etag     |-> _etag([i \in 1..Len(rows) |->
                                    EtagRow(rows[i], pipelines[rows[i].pipeline_id])]),
              assignments |-> [i \in 1..Len(rows) |->
                                 [assignment_id |-> rows[i].id,
                                  agent_id      |-> rows[i].agent_id,
                                  region        |-> rows[i].region,
                                  pipeline      |-> _to_pipeline_spec(rows[i].pipeline_id),
                                  revision      |-> pipelines[rows[i].pipeline_id].version,
                                  updated_at    |-> pipelines[rows[i].pipeline_id].updated_at]]]

\* what the observer keeps of a successful pull
Record(a, r, body) ==
    [n |-> 1, etag |-> body.etag, bound |-> Bound(a, r), at |-> clock]

get_assignments(a, r) ==
    /\ IF get_assignments_response(a, r).status = 200
       THEN /\ agents' = [agents EXCEPT ![a].last_seen_at = clock]
            /\ pulled' = IF a = Observed
                          THEN Record(a, r, get_assignments_response(a, r))
                          ELSE pulled
       ELSE \* 404, or 500 and the session rolls the touch back
            UNCHANGED << agents, pulled >>
    /\ UNCHANGED << clock, pipelines, assignments, nextAsgId, updates >>

create_pipeline(name, enabled, spec) ==
    /\ Len(pipelines) < MaxPipelines
    /\ pipelines' = Append(pipelines,
                        [name |-> name, enabled |-> enabled, version |-> 1,
                         spec |-> _sanitize_pipeline_spec_dict(spec),
                         updated_at |-> clock])
    /\ updates' = Append(updates, 0)
    /\ UNCHANGED << clock, agents, assignments, nextAsgId, pulled >>

\* an update_pipeline that leaves the version alone when the request changes nothing
update_pipeline_if_changed(pid, name, enabled, spec) ==
    /\ IF pid \notin DOMAIN pipelines
       THEN UNCHANGED << pipelines, updates >>
       ELSE /\ pipelines[pid].version < MaxVersion
            /\ pipelines' = [pipelines EXCEPT
                                ![pid].name = name,
                                ![pid].enabled = enabled,
                                ![pid].spec = _sanitize_pipeline_spec_dict(spec),
                                ![pid].version =
                                    IF /\ pipelines[pid].name = name
                                       /\ pipelines[pid].enabled = enabled
                                       /\ pipelines[pid].spec = _sanitize_pipeline_spec_dict(spec)
                                    THEN pipelines[pid].version
                                    ELSE pipelines[pid].version + 1,
                                ![pid].updated_at = clock]
            /\ updates' = [updates EXCEPT ![pid] = @ + 1]
    /\ UNCHANGED << clock, agents, assignments, nextAsgId, pulled >>

update_pipeline(pid, name, enabled, spec) ==
    /\ IF pid \notin DOMAIN pipelines
       THEN UNCHANGED << pipelines, updates >>     \* 404 pipeline_not_found
       ELSE /\ pipelines[pid].version < MaxVersion
            /\ pipelines' = [pipelines EXCEPT
                                ![pid].name = name,
                                ![pid].enabled = enabled,
                                ![pid].spec = _sanitize_pipeline_spec_dict(spec),
                                ![pid].version = pipelines[pid].version + 1,
                                ![pid].updated_at = clock]
            /\ updates' = [updates EXCEPT ![pid] = @ + 1]
    /\ UNCHANGED << clock, agents, assignments, nextAsgId, pulled >>

\* a lookup that finds nothing
ExistingNever(a, r, p) == << >>

Existing(a, r, p) ==
    SelectSeq(assignments,
              LAMBDA row : row.agent_id = a /\ row.region = r /\ row.pipeline_id = p)

create_assignment(a, r, p) ==
    /\ IF a \notin DOMAIN agents \/ p \notin DOMAIN pipelines
       THEN UNCHANGED << assignments, nextAsgId >>     \* 404
       ELSE IF Existing(a, r, p) # << >>
       THEN UNCHANGED << assignments, nextAsgId >>     \* the existing assignment_id
       ELSE /\ nextAsgId < MaxAssignments
            /\ nextAsgId' = nextAsgId + 1
            /\ assignments' = Append(assignments,
                                  [id |-> nextAsgId + 1, agent_id |-> a, region |-> r,
                                   pipeline_id |-> p, created_at |-> clock])
    /\ UNCHANGED << clock, agents, pipelines, updates, pulled >>

delete_assignment(id) ==
    /\ assignments' = SelectSeq(assignments, LAMBDA row : row.id # id)  \* 404 when absent
    /\ UNCHANGED << clock, agents, pipelines, nextAsgId, updates, pulled >>

\* the wall clock moves on between requests
Tick ==
    /\ clock < MaxClock
    /\ clock' = clock + 1
    /\ UNCHANGED << agents, pipelines, assignments, nextAsgId, updates, pulled >>

TablesEmpty ==
    /\ clock = 0
    /\ agents = << >>
    /\ pipelines = << >>
    /\ assignments = << >>
    /\ nextAsgId = 0
    /\ updates = << >>
    /\ pulled = NoPull

NoReconcile == [outcome |-> "none"]

\* Agent._etag: None, or the etag of a response
NoEtag      == [some |-> FALSE]
SomeEtag(e) == [some |-> TRUE, etag |-> e]

AgentNotStarted ==
    /\ agentPc = "boot"
    /\ etagApplied = NoEtag
    /\ runners = << >>
    /\ receivers = {}
    /\ lastReconcile = NoReconcile

\* PipelineRunner.__init__: the counters and lists of a runner just built
NoCall == [made |-> FALSE]

ZeroMetrics == [received |-> 0, buffered |-> 0, sent_batches |-> 0,
                sent_events |-> 0, send_failures |-> 0]

\* no poll call and no ingest request is in progress
NotPolling   == [active |-> FALSE]
NotIngesting == [active |-> FALSE]

\* the source is no HTTP listener: it has no ingest route
NoListener == [active |-> FALSE, route |-> FALSE]

\* Queue(maxsize=max_queue_size), with max_queue_size = 50000 when the options
\* do not set it
QueueBuilt ==
    /\ max_queue_size = 50000
    /\ discarded = 0
    /\ polling = NotPolling
    /\ ingest = NoListener

\* PipelineRunner.__init__ and the source it builds, apart from the queue's size
RunnerFresh ==
    /\ now = 0
    /\ queue = << >>
    /\ emitted = 0
    /\ buffer = << >>
    /\ last_flush = now
    /\ send_attempt = 0
    /\ next_send_at = 0
    /\ inflight = << >>
    /\ metrics = ZeroMetrics
    /\ last_err = "None"
    /\ delivered = << >>
    /\ lastSend = NoCall
    /\ sending = [base |-> ZeroMetrics, failed |-> 0]

RunnerBuilt == RunnerFresh /\ QueueBuilt

\* the control-plane and agent scenarios run no pipeline
NoRunner == RunnerBuilt /\ runner_enabled = FALSE /\ mode = "raw"

\* no create_assignment request is in progress
NoResponse == [answered |-> FALSE]

\* run_forever is not inside its for loop; at: when each runner's tick last began
BetweenPasses(at) ==
    [active |-> FALSE, todo |-> << >>, sending |-> 0, since |-> 0, tickedAt |-> at]

\* run_forever has made no pass over the runners yet
NoPass == [made |-> FALSE]

Idle == [phase |-> "idle"]

NoSessions ==
    /\ sessions = [k \in 1..MaxSessions |-> Idle]
    /\ lastResponse = NoResponse
    /\ tickLog = NoPass
    /\ thread = BetweenPasses([p \in 1..MaxPipelines |-> -1])

InitCP == TablesEmpty /\ AgentNotStarted /\ NoRunner /\ NoSessions

Requests ==
    \/ Tick
    \/ \E a \in AgentIds : register_agent(AgentRegisterRequest(a))
    \/ \E a \in AgentIds : heartbeat(a, HeartbeatPayload(a))
    \/ \E a \in AgentIds : get_assignments(a, RegionOf[a])
    \/ \E n \in Names, b \in Bodies : create_pipeline(n, b.enabled, b.spec)
    \/ \E p \in 1..MaxPipelines, n \in Names, b \in Bodies :
          update_pipeline(p, n, b.enabled, b.spec)
    \/ \E t \in Targets, p \in 1..MaxPipelines : create_assignment(t[1], t[2], p)
    \/ \E id \in 1..MaxAssignments : delete_assignment(id)

NextCP == Requests /\ UNCHANGED << agentVars, runnerVars, txnVars, loopVars >>

SpecCP == InitCP /\ [][NextCP]_vars

(***************************************************************************)
(* Claims about the control plane (SpecCP).                                *)
(***************************************************************************)
\* what a pull of the observed agent returns in the current state
PullNow == get_assignments_response(Observed, RegionOf[Observed])

\* C1: if, since the last pull of (a, r), the set of assignments bound to (a, r)
\* changed or update_pipeline was applied to a bound pipeline, the next pull of
\* (a, r) returns an ETag different from the one the last pull returned.
C1_EtagChangesWhenBoundStateChanges ==
    (pulled.n = 1 /\ PullNow.status = 200
        /\ Bound(Observed, RegionOf[Observed]) # pulled.bound)
    => PullNow.etag # pulled.etag

\* a pull was made, then update_pipeline was applied to a pipeline that is still
\* bound, and an assignment was created besides
C1_Witness ==
    /\ pulled.n = 1
    /\ PullNow.status = 200
    /\ \E x \in pulled.bound, y \in Bound(Observed, RegionOf[Observed]) :
          x[1] = y[1] /\ x[2] < y[2]
    /\ \E y \in Bound(Observed, RegionOf[Observed]) :
          \A x \in pulled.bound : x[1] # y[1]

\* C2: as long as neither the assignments bound to (a, r) nor the versions of their
\* pipelines change, every later pull of (a, r) returns the ETag of the last pull,
\* whatever else happened in between (register, heartbeat, pulls, other agents,
\* other regions, unbound pipelines).
C2_EtagStableWhenBoundStateUnchanged ==
    (pulled.n = 1 /\ PullNow.status = 200
        /\ Bound(Observed, RegionOf[Observed]) = pulled.bound)
    => PullNow.etag = pulled.etag

\* after the pull the agent was seen again (heartbeat, register or pull), another
\* agent or region got an assignment and an unbound pipeline was updated
C2_Witness ==
    /\ pulled.n = 1
    /\ pulled.bound # {}
    /\ Bound(Observed, RegionOf[Observed]) = pulled.bound
    /\ PullNow.status = 200
    /\ agents[Observed].last_seen_at > pulled.at
    /\ \E i \in 1..Len(assignments) :
          /\ << assignments[i].agent_id, assignments[i].region >>
                # << Observed, RegionOf[Observed] >>
          /\ updates[assignments[i].pipeline_id] > 0
          /\ \A x \in pulled.bound : assignments[i].id > x[1]

\* the assignment rows of (a, r), read off the table
RowsOf(a, r) ==
    { i \in 1..Len(assignments) :
        assignments[i].agent_id = a /\ assignments[i].region = r }

\* C3 (as claimed): a successful get_assignments(a, r) lists exactly the enabled
\* pipelines assigned to (a, r), and no disabled one.
C3_ListsExactlyEnabled ==
    \A a \in AgentIds, r \in Regions :
        LET R == get_assignments_response(a, r)
        IN  R.status = 200 =>
              { R.assignments[i].pipeline.pipeline_id : i \in 1..Len(R.assignments) }
                = { assignments[i].pipeline_id :
                      i \in { j \in RowsOf(a, r) :
                                pipelines[assignments[j].pipeline_id].enabled } }

\* C3 (amended): a successful get_assignments(a, r) lists every assignment of (a, r)
\* once, enabled or not, and nothing else; each entry carries its pipeline's id,
\* current enabled flag and version.
C3_ListsEveryAssignment ==
    \A a \in AgentIds, r \in Regions :
        LET R == get_assignments_response(a, r)
        IN  R.status = 200 =>
              /\ Len(R.assignments) = Cardinality(RowsOf(a, r))
              /\ \A j \in RowsOf(a, r) :
                    \E i \in 1..Len(R.assignments) :
                        /\ R.assignments[i].assignment_id = assignments[j].id
                        /\ R.assignments[i].pipeline.pipeline_id = assignments[j].pipeline_id
                        /\ R.assignments[i].pipeline.enabled
                              = pipelines[assignments[j].pipeline_id].enabled
                        /\ R.assignments[i].revision
                              = pipelines[assignments[j].pipeline_id].version

\* the observed agent has pulled; its region has a disabled pipeline assigned, which
\* the pull lists, and another region has an assignment, which it does not list
C3_Witness ==
    /\ pulled.n = 1
    /\ PullNow.status = 200
    /\ Len(PullNow.assignments) = 1
    /\ ~PullNow.assignments[1].pipeline.enabled
    /\ \E i \in 1..Len(assignments) : assignments[i].region # RegionOf[Observed]

\* C11: a pipeline's version is 1 plus the number of update_pipeline calls applied
\* to it, whatever they carried, and a successful pull reports that number as the
\* revision of each assignment of the pipeline.
C11_VersionCountsUpdates ==
    /\ \A p \in DOMAIN pipelines : pipelines[p].version = 1 + updates[p]
    /\ PullNow.status = 200 =>
          \A i \in 1..Len(PullNow.assignments) :
              PullNow.assignments[i].revision =
                  1 + updates[PullNow.assignments[i].pipeline.pipeline_id]

\* an updated pipeline, bound to the observed agent, is pulled at revision 2 next
\* to one never updated
C11_Witness ==
    /\ PullNow.status = 200
    /\ \E i, j \in 1..Len(PullNow.assignments) :
          /\ updates[PullNow.assignments[i].pipeline.pipeline_id] = 1
          /\ PullNow.assignments[i].revision = 2
          /\ updates[PullNow.assignments[j].pipeline.pipeline_id] = 0
          /\ PullNow.assignments[j].revision = 1

(***************************************************************************)
(* The agent (agent.py): one process, configured as Observed in its        *)
(* region, against the control plane above.                                *)
(***************************************************************************)
Self       == Observed
SelfRegion == RegionOf[Observed]

\* request bodies the operator offers in the agent scenarios
AgentBodies == { [enabled |-> TRUE,  spec |-> CanonSyslog],
                 [enabled |-> FALSE, spec |-> CanonSyslog],
                 [enabled |-> TRUE,  spec |-> ("spec" :> Map(CanonTail))] }

\* new_specs: the enabled pipelines of the response, in the response's order
NewSpecs(body) == SelectSeq(body.assignments, LAMBDA a : a.pipeline.enabled)

Ids(entries) == { entries[i].pipeline.pipeline_id : i \in 1..Len(entries) }

\* PipelineRunner(rt, runner_spec, retry); revision is the revision of the
\* assignment the spec came with
Runner(entry) == [spec |-> entry.pipeline, revision |-> entry.revision]

\* SyslogUdpSource.__init__: bind raises OSError when the port is held
BindFails(entry, rcv) ==
    /\ entry.pipeline.source.type = "syslog_udp"
    /\ \E rc \in rcv : rc.port = entry.pipeline.source.port

Opened(entry) ==
    IF entry.pipeline.source.type = "syslog_udp"
    THEN { [pipeline_id |-> entry.pipeline.pipeline_id,
            port |-> entry.pipeline.source.port] }
    ELSE {}

RECURSIVE AddRunners(_, _, _)
\* for pid, spec in new_specs.items(): skip the running ones, build the others;
\* an exception of the constructor leaves the loop
AddRunners(todo, rs, rcv) ==
    IF todo = << >>
    THEN [runners |-> rs, receivers |-> rcv, raised |-> FALSE]
    ELSE IF Head(todo).pipeline.pipeline_id \in DOMAIN rs
    THEN AddRunners(Tail(todo), rs, rcv)
    ELSE IF BindFails(Head(todo), rcv)
    THEN [runners |-> rs, receivers |-> rcv, raised |-> TRUE]
    ELSE AddRunners(Tail(todo),
                    rs @@ (Head(todo).pipeline.pipeline_id :> Runner(Head(todo))),
                    rcv \cup Opened(Head(todo)))

\* del self._pipelines[pid] for the pids no longer in new_specs; nothing is closed
RemoveRunners(rs, new) == [pid \in (DOMAIN rs) \cap Ids(new) |-> rs[pid]]

\* a reconcile whose fast path drops the runners
_apply_assignments_clearing(body) ==
    IF etagApplied = SomeEtag(body.etag)
    THEN /\ lastReconcile' = [outcome |-> "noop", resp |-> body]
         /\ runners' = << >>
         /\ UNCHANGED << etagApplied, receivers >>
    ELSE LET built == AddRunners(NewSpecs(body),
                                 RemoveRunners(runners, NewSpecs(body)), receivers)
         IN  /\ etagApplied' = SomeEtag(body.etag)
             /\ runners' = built.runners
             /\ receivers' = built.receivers
             /\ lastReconcile' = [outcome |-> IF built.raised THEN "raised" ELSE "applied",
                                  resp |-> body]

\* Agent._apply_assignments
_apply_assignments(body) ==
    IF etagApplied = SomeEtag(body.etag)
    THEN /\ lastReconcile' = [outcome |-> "noop", resp |-> body]
         /\ UNCHANGED << etagApplied, runners, receivers >>
    ELSE LET built == AddRunners(NewSpecs(body),
                                 RemoveRunners(runners, NewSpecs(body)), receivers)
         IN  /\ etagApplied' = SomeEtag(body.etag)
             /\ runners' = built.runners
             /\ receivers' = built.receivers
             /\ lastReconcile' = [outcome |-> IF built.raised THEN "raised" ELSE "applied",
                                  resp |-> body]

\* run_forever, before the loop: self.register()
AgentStart ==
    /\ agentPc = "boot"
    /\ register_agent(AgentRegisterRequest(Self))
    /\ agentPc' = "loop"
    /\ UNCHANGED << etagApplied, runners, receivers, lastReconcile >>

\* run_forever: the heartbeat is due; a failure is logged
AgentHeartbeat ==
    /\ agentPc = "loop"
    /\ heartbeat(Self, HeartbeatPayload(Self))
    /\ UNCHANGED agentVars

\* a pull cycle that only logs the 404
AgentPullNoRegister ==
    /\ agentPc = "loop"
    /\ IF get_assignments_response(Self, SelfRegion).status = 200
       THEN /\ get_assignments(Self, SelfRegion)
            /\ _apply_assignments(get_assignments_response(Self, SelfRegion))
            /\ UNCHANGED agentPc
       ELSE /\ UNCHANGED cpVars
            /\ UNCHANGED agentVars

\* run_forever: the pull is due
AgentPull ==
    /\ agentPc = "loop"
    /\ IF get_assignments_response(Self, SelfRegion).status = 200
       THEN /\ get_assignments(Self, SelfRegion)
            /\ _apply_assignments(get_assignments_response(Self, SelfRegion))
            /\ UNCHANGED agentPc
       ELSE IF get_assignments_response(Self, SelfRegion).status = 404
       THEN /\ register_agent(AgentRegisterRequest(Self)) /\ pulled' = pulled
            /\ UNCHANGED agentVars
       ELSE \* assignments_pull_failed is logged
            /\ UNCHANGED cpVars
            /\ UNCHANGED agentVars

\* what the operator does meanwhile
Operator ==
    \/ \E n \in Names, b \in AgentBodies : create_pipeline(n, b.enabled, b.spec)
    \/ \E p \in 1..MaxPipelines, n \in Names, b \in AgentBodies :
          update_pipeline(p, n, b.enabled, b.spec)
    \/ \E p \in 1..MaxPipelines : create_assignment(Self, SelfRegion, p)
    \/ \E id \in 1..MaxAssignments : delete_assignment(id)

NextAgent ==
    \/ AgentStart /\ UNCHANGED << runnerVars, txnVars, loopVars >>
    \/ AgentHeartbeat /\ UNCHANGED << runnerVars, txnVars, loopVars >>
    \/ AgentPull /\ UNCHANGED << runnerVars, txnVars, loopVars >>
    \/ Operator /\ UNCHANGED << agentVars, runnerVars, txnVars, loopVars >>

SpecAgent == InitCP /\ [][NextAgent]_vars

(***************************************************************************)
(* Claims about the agent's reconcile (SpecAgent).                         *)
(***************************************************************************)
\* the pipeline ids of the response's enabled assignments, read off the response
EnabledIn(body) ==
    { body.assignments[i].pipeline.pipeline_id :
        i \in { j \in 1..Len(body.assignments) : body.assignments[j].pipeline.enabled } }

ListedIn(body) ==
    { body.assignments[i].pipeline.pipeline_id : i \in 1..Len(body.assignments) }

\* C4 (as claimed): after the agent reconciles a response whose etag differs from
\* the last applied one, the runner map holds exactly the response's enabled
\* pipeline ids.
C4_RunnersAreTheEnabledPipelines ==
    lastReconcile.outcome \in {"applied", "raised"} =>
        DOMAIN runners = EnabledIn(lastReconcile.resp)

\* C4, what holds: the same, for the reconciles in which no constructor raised.
C4_CompletedReconcile ==
    lastReconcile.outcome = "applied" =>
        DOMAIN runners = EnabledIn(lastReconcile.resp)

\* a reconcile went through that removed the runner of a pipeline now listed as
\* disabled (its receiver is left from when it ran) and kept or built another
C4_Witness ==
    /\ lastReconcile.outcome = "applied"
    /\ runners # << >>
    /\ \E rc \in receivers :
          /\ rc.pipeline_id \in ListedIn(lastReconcile.resp)
          /\ rc.pipeline_id \notin EnabledIn(lastReconcile.resp)
          /\ rc.pipeline_id \notin DOMAIN runners

\* C5 (as claimed): after a reconcile, every runner was built from the revision of
\* its pipeline that the reconciled response carries.
C5_RunnersRunThePulledRevision ==
    lastReconcile.outcome = "applied" =>
        \A i \in 1..Len(lastReconcile.resp.assignments) :
            LET a == lastReconcile.resp.assignments[i]
            IN  a.pipeline.pipeline_id \in DOMAIN runners =>
                  runners[a.pipeline.pipeline_id].revision = a.revision

\* C6 (as claimed): a runner that reconcile removed no longer receives: every
\* receiver still bound to its port belongs to a runner of the map.
C6_RemovedRunnersAreStopped ==
    \A rc \in receivers : rc.pipeline_id \in DOMAIN runners

(***************************************************************************)
(* The pipeline runner (pipeline.py) with a sequencing source, its         *)
(* processor and a recording destination.  An event is [seq, doc]: seq is  *)
(* the arrival number of the raw line it comes from, doc is 0 for the      *)
(* event as the source made it and k >= 1 for the k-th document the        *)
(* indexer made of it.  One tick reads time.monotonic() several times      *)
(* within the same instant: they are one reading, t.  Printing the stats   *)
(* (_maybe_log_metrics) changes nothing a tick reads and is left out.      *)
(***************************************************************************)
\* readings of time.monotonic() are multiples of 1/128 s: base, cap and the
\* jitter of a reading on a quarter of a second are integers
Second == 128

batch_max_events  == 2          \* spec.get("batch_max_events", 50), here small
batch_max_seconds == Second     \* spec.get("batch_max_seconds", 1.0)

Min(a, b) == IF a < b THEN a ELSE b
Max(a, b) == IF a > b THEN a ELSE b

RECURSIVE Pow2(_)
Pow2(n) == IF n = 0 THEN 1 ELSE 2 * Pow2(n - 1)

\* a backoff whose jitter is the whole fraction of the second
_compute_backoff_whole_jitter(attempt, t) ==
    LET base   == Second \div 2
        cap    == 10 * Second
        exp    == Min(cap, base * Pow2(Max(0, attempt - 1)))
        jitter == t % Second
    IN  Min(cap, exp + jitter)

\* PipelineRunner._compute_backoff_seconds, at the reading t
_compute_backoff_seconds(attempt, t) ==
    LET base   == Second \div 2
        cap    == 10 * Second
        exp    == Min(cap, base * Pow2(Max(0, attempt - 1)))
        jitter == (t % Second) \div 4
    IN  Min(cap, exp + jitter)

\* the runner, its source and the call it makes, as one tick sees them
Frame ==
    [enabled |-> runner_enabled, mode |-> mode, queue |-> queue, buffer |-> buffer,
     last_flush |-> last_flush, send_attempt |-> send_attempt,
     next_send_at |-> next_send_at, inflight |-> inflight, metrics |-> metrics,
     last_err |-> last_err, call |-> NoCall, raised |-> FALSE]

\* a try branch that leaves the attempt counter and the error as they are
OnSendOkKeepingAttempt(f) ==
    [f EXCEPT !.metrics.sent_batches = @ + 1,
              !.metrics.sent_events = @ + Len(f.inflight),
              !.inflight = << >>,
              !.next_send_at = 0]

\* _try_send_inflight, try branch: destination.send returned
OnSendOk(f) ==
    [f EXCEPT !.metrics.sent_batches = @ + 1,
              !.metrics.sent_events = @ + Len(f.inflight),
              !.last_err = "None",
              !.inflight = << >>,
              !.send_attempt = 0,
              !.next_send_at = 0]

\* an except branch that gives the batch up
OnSendFailureDropping(f, t) ==
    [f EXCEPT !.metrics.send_failures = @ + 1,
              !.last_err = "Error",
              !.inflight = << >>,
              !.send_attempt = @ + 1,
              !.next_send_at = t + _compute_backoff_seconds(f.send_attempt + 1, t)]

\* _try_send_inflight, except branch: destination.send raised
OnSendFailure(f, t) ==
    [f EXCEPT !.metrics.send_failures = @ + 1,
              !.last_err = "Error",
              !.send_attempt = @ + 1,
              !.next_send_at = t + _compute_backoff_seconds(f.send_attempt + 1, t)]

\* PipelineRunner._try_send_inflight; ok is what the destination does with the call
_try_send_inflight(f, ok, t) ==
    IF f.inflight = << >>
    THEN f
    ELSE LET called == [f EXCEPT !.call = [made |-> TRUE, batch |-> f.inflight, ok |-> ok]]
         IN  IF ok THEN OnSendOk(called) ELSE OnSendFailure(called, t)

\* the documents of one raw line: answer of them
Docs(e, answer) == [k \in 1..answer |-> [seq |-> e.seq, doc |-> k]]

RECURSIVE Normalized(_, _)
Normalized(batch, answers) ==
    IF batch = << >> THEN << >>
    ELSE Docs(Head(batch), answers[Head(batch).seq]) \o Normalized(Tail(batch), answers)

\* RawProcessor.process returns the events; IndexedProcessor.process posts each raw
\* line and raises on a 422, an HTTP error or an answer without documents (answer 0)
process(m, batch, answers) ==
    IF m = "raw"
    THEN [raised |-> FALSE, out |-> batch]
    ELSE IF \E i \in 1..Len(batch) : answers[batch[i].seq] = 0
    THEN [raised |-> TRUE, out |-> << >>]
    ELSE [raised |-> FALSE, out |-> Normalized(batch, answers)]

\* PipelineRunner._flush_if_needed
_flush_if_needed(f, ok, answers, t) ==
    IF f.buffer = << >>
    THEN f
    ELSE IF Len(f.buffer) < batch_max_events /\ t - f.last_flush < batch_max_seconds
    THEN f
    ELSE LET batch     == f.buffer
             cut       == [f EXCEPT !.buffer = << >>, !.last_flush = t]
             processed == process(f.mode, batch, answers)
         IN  IF processed.raised
             THEN [cut EXCEPT !.raised = TRUE]
             ELSE _try_send_inflight([cut EXCEPT !.inflight = processed.out,
                                                 !.send_attempt = 0,
                                                 !.next_send_at = t],
                                     ok, t)

\* a poll that takes everything that is queued
poll_everything(f, max_events) ==
    [f EXCEPT !.queue = << >>,
              !.buffer = @ \o f.queue,
              !.metrics.received = @ + Len(f.queue),
              !.metrics.buffered = @ + Len(f.queue)]

\* source.poll(max_events): up to max_events events leave the queue, oldest first
poll(f, max_events) ==
    LET n      == Min(max_events, Len(f.queue))
        pulled_ == SubSeq(f.queue, 1, n)
    IN  [f EXCEPT !.queue = SubSeq(f.queue, n + 1, Len(f.queue)),
                  !.buffer = @ \o pulled_,
                  !.metrics.received = @ + n,
                  !.metrics.buffered = @ + n]

\* a tick that does not look at inflight
NeverInflight(f) == FALSE

\* if self._inflight
HasInflight(f) == f.inflight # << >>

\* a tick that sends the inflight batch again whatever the time
tick_ungated(f, ok, answers, t) ==
    IF ~f.enabled THEN f
    ELSE IF HasInflight(f) THEN _try_send_inflight(f, ok, t)
    ELSE _flush_if_needed(poll(f, batch_max_events), ok, answers, t)

\* PipelineRunner.tick
tick(f, ok, answers, t) ==
    IF ~f.enabled THEN f
    ELSE IF HasInflight(f) /\ t < f.next_send_at THEN f
    ELSE IF HasInflight(f) THEN _try_send_inflight(f, ok, t)
    ELSE _flush_if_needed(poll(f, batch_max_events), ok, answers, t)

\* the raw lines a tick can hand to the processor
Lines(f) == { f.buffer[i].seq : i \in 1..Len(f.buffer) }

\* r.tick() of the runner, written back to the runner: the destination does ok
\* with the call, the indexer answers each raw line
TickWith(ok, answers) ==
        /\ LET f == tick(Frame, ok, answers, now)
           IN  /\ queue' = f.queue
               /\ buffer' = f.buffer
               /\ last_flush' = f.last_flush
               /\ send_attempt' = f.send_attempt
               /\ next_send_at' = f.next_send_at
               /\ inflight' = f.inflight
               /\ metrics' = f.metrics
               /\ last_err' = f.last_err
               /\ lastSend' = f.call
               /\ delivered' = IF f.call.made /\ f.call.ok
                               THEN Append(delivered, f.call.batch)
                               ELSE delivered
               /\ sending' = IF ~f.call.made THEN sending
                             ELSE [base   |-> IF inflight = << >> THEN metrics
                                              ELSE sending.base,
                                   failed |-> (IF inflight = << >> THEN 0
                                               ELSE sending.failed)
                                              + (IF f.call.ok THEN 0 ELSE 1)]
        /\ UNCHANGED << now, emitted, qVars, runner_enabled, mode >>

\* Agent.run_forever: r.tick() for the runner; the destination accepts or rejects
\* the call, the indexer answers each raw line
RunnerTick ==
    \E ok \in BOOLEAN,
       answers \in [Lines(poll(Frame, batch_max_events)) -> 0..MaxDocs] :
        /\ ok \/ metrics.send_failures < MaxFailures
        /\ TickWith(ok, answers)

\* SyslogUdpSource._run: a datagram arrives and is queued
Receive ==
    /\ emitted < MaxEvents
    /\ emitted' = emitted + 1
    /\ queue' = Append(queue, [seq |-> emitted + 1, doc |-> 0])
    /\ lastSend' = NoCall
    /\ UNCHANGED << now, qVars, runVars, delivered, sending >>

\* time passes between two ticks
Advance ==
    /\ now < MaxNow * (Second \div 4)
    /\ now' = now + Second \div 4
    /\ lastSend' = NoCall
    /\ UNCHANGED << queue, emitted, qVars, runVars, delivered, sending >>

InitRunner ==
    /\ TablesEmpty
    /\ AgentNotStarted
    /\ RunnerBuilt
    /\ NoSessions
    /\ runner_enabled \in BOOLEAN
    /\ mode \in {"raw", "indexed"}

NextRunner ==
    \/ RunnerTick /\ UNCHANGED << cpVars, agentVars, txnVars, loopVars >>
    \/ Receive /\ UNCHANGED << cpVars, agentVars, txnVars, loopVars >>
    \/ Advance /\ UNCHANGED << cpVars, agentVars, txnVars, loopVars >>

SpecRunner == InitRunner /\ [][NextRunner]_vars

RECURSIVE Flatten(_)
Flatten(batches) ==
    IF batches = << >> THEN << >> ELSE Head(batches) \o Flatten(Tail(batches))

\* the raw lines a sequence of events comes from, each once per run of its documents
RECURSIVE Origins(_)
Origins(events) ==
    IF events = << >> THEN << >>
    ELSE IF Len(events) > 1 /\ events[2].seq = events[1].seq
    THEN Origins(Tail(events))
    ELSE << events[1].seq >> \o Origins(Tail(events))

\* what the successive source.poll calls have returned: the source numbers its
\* events in arrival order and hands them out oldest first
Polled == [i \in 1..(emitted - Len(queue)) |-> i]

IsPrefix(s, t) == Len(s) <= Len(t) /\ SubSeq(t, 1, Len(s)) = s

\* C8 (as claimed): the batches the destination accepted, concatenated, are a
\* prefix of the events the polls returned.
C8_DeliveredIsPrefixOfPolled ==
    IsPrefix(Origins(Flatten(delivered)), Polled)

\* C8, what holds: with the raw processor they are.
C8_RawDeliveredIsPrefixOfPolled ==
    mode = "raw" => IsPrefix(Origins(Flatten(delivered)), Polled)

\* C9: while inflight is non-empty no step polls the source or touches the buffer,
\* and a call of destination.send is made with that inflight batch.
C9_NoPollNoCutWhileInflight ==
    [][ inflight # << >> =>
          /\ metrics'.received = metrics.received
          /\ Len(queue') >= Len(queue)
          /\ buffer' = buffer
          /\ lastSend'.made => lastSend'.batch = inflight ]_vars

\* a retry has just been made, and failed, with events waiting in the source
C9_Witness ==
    /\ inflight # << >>
    /\ queue # << >>
    /\ lastSend.made
    /\ ~lastSend.ok
    /\ send_attempt >= 2

\* the runner's metrics hold no count of dropped events
Drops == IF "drops" \in DOMAIN metrics THEN metrics.drops ELSE 0

\* C10 (as claimed): sent_events <= received, and every received event is sent,
\* buffered, inflight or counted as dropped.
C10_NoEventVanishes ==
    /\ metrics.sent_events <= metrics.received
    /\ metrics.sent_events + Len(buffer) + Len(inflight) + Drops >= metrics.received

\* C10, what holds: both, with the raw processor.
C10_RawNoEventVanishes ==
    mode = "raw" =>
        /\ metrics.sent_events <= metrics.received
        /\ metrics.sent_events + Len(buffer) + Len(inflight) >= metrics.received

(***************************************************************************)
(* create_assignment requests served at the same time (api.py, db.py).     *)
(* Each request runs in its own session_scope: it reads the committed      *)
(* rows, and what it adds is seen by the others once it has committed.     *)
(* The table has no unique constraint on (agent_id, region, pipeline_id).  *)
(***************************************************************************)
\* a lookup of the agent only
LookupAgentOnly(a, p) ==
    IF a \notin DOMAIN agents THEN "agent_not_found" ELSE "found"

\* session.get(Agent, ...), session.get(Pipeline, ...)
Lookup(a, p) ==
    IF a \notin DOMAIN agents THEN "agent_not_found"
    ELSE IF p \notin DOMAIN pipelines THEN "pipeline_not_found"
    ELSE "found"

Answer404(a, r, p, why) ==
    [answered |-> TRUE, status |-> 404, detail |-> why,
     agent_id |-> a, region |-> r, pipeline_id |-> p]

Answer200(a, r, p, id, ins) ==
    [answered |-> TRUE, status |-> 200, assignment_id |-> id, inserted |-> ins,
     agent_id |-> a, region |-> r, pipeline_id |-> p]

\* create_assignment up to `if existing is not None`: 404, or the id of a row
\* the select found (.first() of a select without ORDER BY), or the decision to
\* add a row
BeginCreateAssignment(k, a, r, p) ==
    /\ sessions[k] = Idle
    /\ IF Lookup(a, p) # "found"
       THEN /\ lastResponse' = Answer404(a, r, p, Lookup(a, p))
            /\ UNCHANGED sessions
       ELSE IF Existing(a, r, p) # << >>
       THEN /\ \E i \in 1..Len(Existing(a, r, p)) :
                  lastResponse' = Answer200(a, r, p, Existing(a, r, p)[i].id, FALSE)
            /\ UNCHANGED sessions
       ELSE /\ sessions' = [sessions EXCEPT ![k] =
                              [phase |-> "insert", agent_id |-> a, region |-> r,
                               pipeline_id |-> p]]
            /\ lastResponse' = NoResponse
    /\ UNCHANGED cpVars

\* session.add(asg), session.flush(), return, and session_scope's commit
CommitCreateAssignment(k) ==
    /\ sessions[k] # Idle
    /\ nextAsgId < MaxAssignments
    /\ nextAsgId' = nextAsgId + 1
    /\ assignments' = Append(assignments,
                          [id |-> nextAsgId + 1, agent_id |-> sessions[k].agent_id,
                           region |-> sessions[k].region,
                           pipeline_id |-> sessions[k].pipeline_id,
                           created_at |-> clock])
    /\ sessions' = [sessions EXCEPT ![k] = Idle]
    /\ lastResponse' = Answer200(sessions[k].agent_id, sessions[k].region,
                                 sessions[k].pipeline_id, nextAsgId + 1, TRUE)
    /\ UNCHANGED << clock, agents, pipelines, updates, pulled >>

\* the other requests served meanwhile
OtherRequests ==
    \/ \E a \in AgentIds : register_agent(AgentRegisterRequest(a))
    \/ \E n \in Names : create_pipeline(n, TRUE, CanonSyslog)
    \/ \E id \in 1..MaxAssignments : delete_assignment(id)

NextConcurrent ==
    \/ \E k \in 1..MaxSessions, t \in Targets, p \in 1..MaxPipelines :
          BeginCreateAssignment(k, t[1], t[2], p) /\ UNCHANGED << agentVars, runnerVars, loopVars >>
    \/ \E k \in 1..MaxSessions :
          CommitCreateAssignment(k) /\ UNCHANGED << agentVars, runnerVars, loopVars >>
    \/ OtherRequests /\ lastResponse' = NoResponse
                     /\ UNCHANGED << sessions, agentVars, runnerVars, loopVars >>

SpecConcurrent == InitCP /\ [][NextConcurrent]_vars

(***************************************************************************)
(* Claims about create_assignment (SpecConcurrent).                        *)
(***************************************************************************)
\* the rows of the table for a triple
TripleRows(a, r, p) ==
    { i \in 1..Len(assignments) :
        /\ assignments[i].agent_id = a
        /\ assignments[i].region = r
        /\ assignments[i].pipeline_id = p }

\* C12: a create_assignment(a, r, p) that starts while the agent, the pipeline and
\* an assignment of (a, r, p) exist answers 200 with the id of an existing
\* assignment of the triple and leaves every table as it was.
C12_CreateAssignmentIdempotent ==
    [][ \A k \in 1..MaxSessions, t \in Targets, p \in 1..MaxPipelines :
          ( /\ BeginCreateAssignment(k, t[1], t[2], p)
            /\ Lookup(t[1], p) = "found"
            /\ TripleRows(t[1], t[2], p) # {} )
          => /\ lastResponse'.answered
             /\ lastResponse'.status = 200
             /\ \E i \in TripleRows(t[1], t[2], p) :
                   lastResponse'.assignment_id = assignments[i].id
             /\ assignments' = assignments
             /\ nextAsgId' = nextAsgId
             /\ sessions' = sessions ]_vars

\* the latest request was answered with the id of the one row its triple has,
\* without adding a row
C12_Witness ==
    /\ lastResponse.answered
    /\ lastResponse.status = 200
    /\ ~lastResponse.inserted
    /\ \E i \in 1..Len(assignments) :
          /\ TripleRows(lastResponse.agent_id, lastResponse.region,
                        lastResponse.pipeline_id) = {i}
          /\ lastResponse.assignment_id = assignments[i].id

\* C13 (as claimed): at most one assignment row per (agent_id, region, pipeline_id).
C13_OneAssignmentPerTriple ==
    \A i, j \in 1..Len(assignments) :
        ( /\ assignments[i].agent_id = assignments[j].agent_id
          /\ assignments[i].region = assignments[j].region
          /\ assignments[i].pipeline_id = assignments[j].pipeline_id ) => i = j

\* C14: a create_assignment(a, r, p) for an agent or a pipeline that does not
\* exist answers 404 (agent_not_found before pipeline_not_found) and changes no
\* table and no session; and 404 is answered in no other case.
C14_NotFoundChangesNothing ==
    [][ \A k \in 1..MaxSessions, t \in Targets, p \in 1..MaxPipelines :
          BeginCreateAssignment(k, t[1], t[2], p) =>
            IF t[1] \notin DOMAIN agents \/ p \notin DOMAIN pipelines
            THEN /\ lastResponse'.answered
                 /\ lastResponse'.status = 404
                 /\ lastResponse'.detail = IF t[1] \notin DOMAIN agents
                                           THEN "agent_not_found"
                                           ELSE "pipeline_not_found"
                 /\ UNCHANGED << cpVars, sessions >>
            ELSE lastResponse'.answered => lastResponse'.status = 200 ]_vars

\* a request for a registered agent and a missing pipeline was answered 404 while
\* the table held an assignment
C14_Witness ==
    /\ lastResponse.answered
    /\ lastResponse.status = 404
    /\ lastResponse.detail = "pipeline_not_found"
    /\ lastResponse.agent_id \in DOMAIN agents
    /\ assignments # << >>

(***************************************************************************)
(* Registrations and heartbeats with any payload (api.py).                 *)
(***************************************************************************)
Ports == {8081, 8082}

CapabilityLists == { << >>, << "file_tail" >> }

HeartbeatRequests ==
    [region : Regions, admin_port : Ports, capabilities : CapabilityLists]

RegisterRequests ==
    [agent_id : AgentIds, region : Regions, admin_port : Ports,
     capabilities : CapabilityLists]

\* POST /v1/agents/{agent_id}/heartbeat, and the answer it gives
Heartbeat(a, req) ==
    /\ heartbeat(a, req)
    /\ lastResponse' = [answered |-> TRUE, agent_id |-> a,
                        status |-> heartbeat_response(a).status]

NextHeartbeat ==
    \/ \E a \in AgentIds, req \in HeartbeatRequests :
          Heartbeat(a, req) /\ UNCHANGED << sessions, agentVars, runnerVars, loopVars >>
    \/ \E req \in RegisterRequests :
          /\ register_agent(req)
          /\ lastResponse' = NoResponse
          /\ UNCHANGED << sessions, agentVars, runnerVars, loopVars >>
    \/ /\ create_assignment(Observed, RegionOf[Observed], 1)
       /\ lastResponse' = NoResponse
       /\ UNCHANGED << sessions, agentVars, runnerVars, loopVars >>
    \/ \E n \in Names :
          /\ create_pipeline(n, TRUE, CanonSyslog)
          /\ lastResponse' = NoResponse
          /\ UNCHANGED << sessions, agentVars, runnerVars, loopVars >>
    \/ Tick /\ lastResponse' = NoResponse
            /\ UNCHANGED << sessions, agentVars, runnerVars, loopVars >>

SpecHeartbeat == InitCP /\ [][NextHeartbeat]_vars

\* C15: a heartbeat for an agent_id without a row answers 404 and adds no row; for
\* an agent with a row it answers 200 and sets the row's region, admin_port,
\* capabilities and last_seen_at, leaving tenant_id, the other rows and the other
\* tables as they were.
C15_HeartbeatTouchesOneKnownAgent ==
    [][ \A a \in AgentIds, req \in HeartbeatRequests :
          Heartbeat(a, req) =>
            /\ pipelines' = pipelines
            /\ assignments' = assignments
            /\ nextAsgId' = nextAsgId
            /\ IF a \notin DOMAIN agents
               THEN /\ lastResponse'.status = 404
                    /\ agents' = agents
               ELSE /\ lastResponse'.status = 200
                    /\ DOMAIN agents' = DOMAIN agents
                    /\ \A b \in DOMAIN agents \ {a} : agents'[b] = agents[b]
                    /\ agents'[a].region = req.region
                    /\ agents'[a].admin_port = req.admin_port
                    /\ agents'[a].capabilities = [items |-> req.capabilities]
                    /\ agents'[a].last_seen_at = clock
                    /\ agents'[a].tenant_id = agents[a].tenant_id ]_vars

\* a heartbeat was answered 404 and its agent has no row, while the other agent's
\* row carries what a later heartbeat of its own wrote
C15_Witness ==
    /\ lastResponse.answered
    /\ lastResponse.status = 404
    /\ lastResponse.agent_id \notin DOMAIN agents
    /\ \E b \in DOMAIN agents :
          /\ agents[b].last_seen_at = 1
          /\ agents[b].capabilities = [items |-> << "file_tail" >>]
    /\ assignments # << >>

(***************************************************************************)
(* The agent's loop when the control plane loses the agent's row, with     *)
(* the pull scheduled fairly (run_forever pulls every                      *)
(* poll_assignments_seconds for as long as the process runs).              *)
(***************************************************************************)
\* the row of the running agent leaves the agents table (a restored or emptied
\* database); its assignments go with it (ondelete CASCADE)
ForgetAgent ==
    /\ agentPc = "loop"
    /\ Self \in DOMAIN agents
    /\ clock < MaxClock
    /\ clock' = clock + 1
    /\ agents' = [a \in DOMAIN agents \ {Self} |-> agents[a]]
    /\ assignments' = SelectSeq(assignments, LAMBDA row : row.agent_id # Self)
    /\ pulled' = NoPull
    /\ UNCHANGED << pipelines, nextAsgId, updates >>

\* the pull cycle of run_forever, as a step of the whole system
PullCycle == AgentPull /\ UNCHANGED << runnerVars, txnVars, loopVars >>

\* the operator creates pipelines and assigns them to the agent
Assigning ==
    \/ \E n \in Names : create_pipeline(n, TRUE, CanonSyslog)
    \/ \E p \in 1..MaxPipelines : create_assignment(Self, SelfRegion, p)

NextAgentLive ==
    \/ AgentStart /\ UNCHANGED << runnerVars, txnVars, loopVars >>
    \/ AgentHeartbeat /\ UNCHANGED << runnerVars, txnVars, loopVars >>
    \/ PullCycle
    \/ Assigning /\ UNCHANGED << agentVars, runnerVars, txnVars, loopVars >>
    \/ ForgetAgent /\ UNCHANGED << agentVars, runnerVars, txnVars, loopVars >>

SpecAgentLive == InitCP /\ [][NextAgentLive]_vars /\ WF_vars(PullCycle)

\* C16: while the running agent has no row, heartbeat and pull answer 404; and
\* from any such state a state follows in which the row exists again and a pull
\* has succeeded since the row was lost.
C16_ReRegistrationIsLive ==
    /\ [](Self \notin DOMAIN agents =>
            /\ heartbeat_response(Self).status = 404
            /\ get_assignments_response(Self, SelfRegion).status = 404)
    /\ (agentPc = "loop" /\ Self \notin DOMAIN agents) ~>
          (Self \in DOMAIN agents /\ pulled.n = 1)

\* the row was lost while the agent ran, and since then the agent is registered
\* again and has pulled
C16_Witness ==
    /\ agentPc = "loop"
    /\ clock = 1
    /\ Self \in DOMAIN agents
    /\ pulled.n = 1
    /\ pulled.at = 1

(***************************************************************************)
(* run_forever when the control plane may be out of reach and a runner's   *)
(* tick may raise.  A tick is taken here by its outcome only: it returns   *)
(* or it raises.                                                           *)
(***************************************************************************)
RECURSIVE Snapshot(_)
\* runners = list(self._pipelines.values()), taken under the lock
Snapshot(ids) ==
    IF ids = {}
    THEN << >>
    ELSE LET p == CHOOSE x \in ids : \A y \in ids : x <= y
         IN  << p >> \o Snapshot(ids \ {p})

RECURSIVE TickEachUnguarded(_, _, _)
\* a pass in which the exception of a tick leaves the for loop
TickEachUnguarded(todo, raising, done) ==
    IF todo = << >>
    THEN [ticked |-> done, escaped |-> FALSE]
    ELSE IF Head(todo) \in raising
    THEN [ticked |-> [done EXCEPT ![Head(todo)] = @ + 1], escaped |-> TRUE]
    ELSE TickEachUnguarded(Tail(todo), raising, [done EXCEPT ![Head(todo)] = @ + 1])

RECURSIVE TickEach(_, _, _)
\* for r in runners: try: r.tick() except Exception: log.exception(...)
\* raising: the runners whose tick raises in this pass
TickEach(todo, raising, done) ==
    IF todo = << >>
    THEN [ticked |-> done, escaped |-> FALSE]
    ELSE TickEach(Tail(todo), raising, [done EXCEPT ![Head(todo)] = @ + 1])

\* run_forever: one pass over the snapshot of the runners
TickRunners ==
    /\ agentPc = "loop"
    /\ \E raising \in SUBSET DOMAIN runners :
          LET pass == TickEach(Snapshot(DOMAIN runners), raising,
                               [p \in DOMAIN runners |-> 0])
          IN  /\ tickLog' = [made |-> TRUE,
                             snapshot |-> Snapshot(DOMAIN runners),
                             raised |-> raising,
                             ticked |-> pass.ticked]
              /\ agentPc' = IF pass.escaped THEN "crashed" ELSE "loop"
    /\ UNCHANGED << etagApplied, runners, receivers, lastReconcile, thread >>
    /\ UNCHANGED << cpVars, runnerVars, txnVars >>

\* run_forever, before the loop: self.register() stands outside any try, and
\* cli.run calls run_forever bare; when the call raises the process ends
StartOrDie(reachable) ==
    IF reachable
    THEN AgentStart
    ELSE /\ agentPc = "boot"
         /\ agentPc' = "crashed"
         /\ UNCHANGED cpVars
         /\ UNCHANGED << etagApplied, runners, receivers, lastReconcile >>

\* run_forever: the heartbeat is due; heartbeat_failed is logged
HeartbeatOrLog(reachable) ==
    IF reachable
    THEN AgentHeartbeat
    ELSE /\ agentPc = "loop"
         /\ UNCHANGED cpVars
         /\ UNCHANGED agentVars

\* run_forever: the pull is due; assignments_pull_failed and re_register_failed
\* are logged.  again: the register call after a 404 gets through
PullOrLog(reachable, again) ==
    IF reachable /\ (get_assignments_response(Self, SelfRegion).status = 404 => again)
    THEN AgentPull
    ELSE /\ agentPc = "loop"
         /\ UNCHANGED cpVars
         /\ UNCHANGED agentVars

\* what the operator does meanwhile: pipelines of both source kinds, assigned
\* to the agent
AssigningBoth ==
    \/ \E n \in Names, b \in AgentBodies :
          b.enabled /\ create_pipeline(n, b.enabled, b.spec)
    \/ \E p \in 1..MaxPipelines : create_assignment(Self, SelfRegion, p)

NextLoop ==
    \/ \E reachable \in BOOLEAN :
          StartOrDie(reachable) /\ UNCHANGED << runnerVars, txnVars, loopVars >>
    \/ \E reachable \in BOOLEAN :
          HeartbeatOrLog(reachable) /\ UNCHANGED << runnerVars, txnVars, loopVars >>
    \/ \E reachable \in BOOLEAN, again \in BOOLEAN :
          PullOrLog(reachable, again) /\ UNCHANGED << runnerVars, txnVars, loopVars >>
    \/ TickRunners
    \/ AssigningBoth /\ UNCHANGED << agentVars, runnerVars, txnVars, loopVars >>
    \/ ForgetAgent /\ UNCHANGED << agentVars, runnerVars, txnVars, loopVars >>

SpecLoop == InitCP /\ [][NextLoop]_vars

\* C17: after a pass over the runners the loop is still running, and every
\* runner of the snapshot has been ticked exactly once in the pass, whichever
\* ticks raised.
C17_EveryRunnerTickedOncePerPass ==
    tickLog.made =>
        /\ agentPc = "loop"
        /\ \A i \in 1..Len(tickLog.snapshot) :
              tickLog.ticked[tickLog.snapshot[i]] = 1

\* a pass over two runners in which the tick of the first one raised
C17_Witness ==
    /\ tickLog.made
    /\ Len(tickLog.snapshot) = 2
    /\ tickLog.raised = { tickLog.snapshot[1] }
    /\ tickLog.ticked[tickLog.snapshot[2]] = 1
    /\ agentPc = "loop"

\* C18: no failure of a control-plane call ends the agent's loop.
C18_NoCallFailureEndsTheLoop == agentPc # "crashed"

(***************************************************************************)
(* The runner when the processor or the destination fails.                 *)
(***************************************************************************)
\* the step cut a batch off the buffer: with nothing inflight the runner polled,
\* had events to flush, and left the buffer empty
CutsBatch ==
    /\ runner_enabled
    /\ inflight = << >>
    /\ buffer' = << >>
    /\ last_flush' = now
    /\ (buffer # << >> \/ metrics'.received > metrics.received)

\* C19: a batch cut off the buffer is never lost: after the step it is the
\* inflight batch of the runner, or the destination has accepted it in the step;
\* so a batch the processor failed on is inflight.
C19_FailedBatchBecomesInflight ==
    [][CutsBatch => (inflight' # << >> \/ (lastSend'.made /\ lastSend'.ok))]_vars

\* run_forever: time.sleep(0.05) between two passes, as long as the runner waits
\* for next_send_at; the clock is not held back while a batch waits
Wait ==
    /\ inflight # << >>
    /\ now < next_send_at
    /\ now' = now + Second \div 4
    /\ lastSend' = NoCall
    /\ UNCHANGED << queue, emitted, qVars, runVars, delivered, sending >>

TickCycle == RunnerTick /\ UNCHANGED << cpVars, agentVars, txnVars, loopVars >>
WaitCycle == Wait /\ UNCHANGED << cpVars, agentVars, txnVars, loopVars >>

NextRunnerLive ==
    \/ TickCycle
    \/ Receive /\ UNCHANGED << cpVars, agentVars, txnVars, loopVars >>
    \/ Advance /\ UNCHANGED << cpVars, agentVars, txnVars, loopVars >>
    \/ WaitCycle

\* run_forever ticks the runner in every pass and sleeps 0.05 s between passes:
\* a tick that can act is made, and time goes on while a batch waits.  The
\* destination rejects at most MaxFailures calls (the guard of RunnerTick).
SpecRunnerLive ==
    /\ InitRunner
    /\ [][NextRunnerLive]_vars
    /\ WF_vars(TickCycle)
    /\ WF_vars(WaitCycle)

\* C20: an inflight batch is eventually gone; and in the state the accepted send
\* leaves, inflight is empty, send_failures has grown, since the batch became
\* inflight, by exactly the number of sends of it that failed, sent_batches by 1,
\* sent_events by the length of the batch, send_attempt is 0 and last_err is None.
C20_InflightEventuallySentAndCounted ==
    /\ (inflight # << >>) ~> (inflight = << >>)
    /\ []((lastSend.made /\ lastSend.ok) =>
            /\ inflight = << >>
            /\ metrics.send_failures = sending.base.send_failures + sending.failed
            /\ metrics.sent_batches = sending.base.sent_batches + 1
            /\ metrics.sent_events = sending.base.sent_events + Len(lastSend.batch)
            /\ send_attempt = 0
            /\ last_err = "None")

\* the destination has just accepted a batch it had rejected MaxFailures times
C20_Witness ==
    /\ lastSend.made
    /\ lastSend.ok
    /\ sending.failed = MaxFailures
    /\ inflight = << >>

(***************************************************************************)
(* What the control plane stores and what it reads back.                   *)
(***************************************************************************)
\* C21: every stored pipeline spec has a source and a destination.
C21_StoredSpecHasSourceAndDestination ==
    \A p \in DOMAIN pipelines :
        Has(pipelines[p].spec, "source") /\ Has(pipelines[p].spec, "destination")

\* spec blobs the operator stores in the read scenario: complete, lacking the
\* destination, empty, and with a source type the runner builds
ReadSpecs == { CanonSyslog, NoDest, EmptyDict, Listener }

\* the control plane as one agent's pulls see it
ReadRequests ==
    \/ Tick
    \/ register_agent(AgentRegisterRequest(Observed))
    \/ get_assignments(Observed, RegionOf[Observed])
    \/ \E n \in Names, sp \in ReadSpecs : create_pipeline(n, TRUE, sp)
    \/ \E p \in 1..MaxPipelines, n \in Names, sp \in ReadSpecs :
          update_pipeline(p, n, TRUE, sp)
    \/ \E p \in 1..MaxPipelines : create_assignment(Observed, RegionOf[Observed], p)
    \/ \E id \in 1..MaxAssignments : delete_assignment(id)

NextRead == ReadRequests /\ UNCHANGED << agentVars, runnerVars, txnVars, loopVars >>

SpecRead == InitCP /\ [][NextRead]_vars

\* a pipeline assigned to (a, r) whose stored spec lacks source or destination
LacksSection(a, r) ==
    \E i \in 1..Len(Selected(a, r)) :
        LET sp == pipelines[Selected(a, r)[i].pipeline_id].spec
        IN  ~Has(sp, "source") \/ ~Has(sp, "destination")

\* C22: when a pipeline assigned to a registered agent's (a, r) has a stored spec
\* lacking source or destination, get_assignments(a, r) answers 500 with detail
\* pipeline_spec_invalid_missing_source_or_destination and carries no DTO.
C22_MissingSectionFailsThePull ==
    (Observed \in DOMAIN agents /\ LacksSection(Observed, RegionOf[Observed])) =>
        /\ PullNow.status = 500
        /\ PullNow.detail = "pipeline_spec_invalid_missing_source_or_destination"
        /\ "assignments" \notin DOMAIN PullNow

\* what holds of the same pull: it answers 500 and carries no DTO, and the detail
\* is the one of the first assigned pipeline that cannot be mapped
C22_MissingSectionGivesNoDTO ==
    (Observed \in DOMAIN agents /\ LacksSection(Observed, RegionOf[Observed])) =>
        /\ PullNow.status = 500
        /\ "assignments" \notin DOMAIN PullNow

(***************************************************************************)
(* list_agents and the live status of an agent.  In this scenario the      *)
(* clock counts seconds and runs to MaxWall.                               *)
(***************************************************************************)
MaxWall == 4                               \* wall-clock readings are 0..MaxWall
agent_offline_threshold_seconds == 2       \* Settings: default 20, here small

\* a status that is OFFLINE already when exactly the threshold has passed
_agent_live_status_strict(last_seen_at, threshold_seconds) ==
    IF clock - last_seen_at < threshold_seconds THEN "ONLINE" ELSE "OFFLINE"

\* _agent_live_status: now is _utcnow()
_agent_live_status(last_seen_at, threshold_seconds) ==
    IF clock - last_seen_at <= threshold_seconds THEN "ONLINE" ELSE "OFFLINE"

\* the answer of list_agents in the current state, one item per agent row
list_agents_response ==
    [a \in DOMAIN agents |->
        [agent_id     |-> a,
         region       |-> agents[a].region,
         tenant_id    |-> agents[a].tenant_id,
         admin_port   |-> agents[a].admin_port,
         capabilities |-> agents[a].capabilities,
         last_seen_at |-> agents[a].last_seen_at,
         status       |-> _agent_live_status(agents[a].last_seen_at,
                                             agent_offline_threshold_seconds)]]

\* a request of an agent and the status it was answered with
Contact(op, a, status) ==
    [answered |-> TRUE, op |-> op, agent_id |-> a, status |-> status]

\* GET /v1/agents: reads only
list_agents ==
    /\ lastResponse' = [answered |-> TRUE, op |-> "list_agents",
                        body |-> list_agents_response]
    /\ UNCHANGED cpVars

\* seconds pass between two requests
Elapse ==
    /\ clock < MaxWall
    /\ clock' = clock + 1
    /\ lastResponse' = NoResponse
    /\ UNCHANGED << agents, pipelines, assignments, nextAsgId, updates, pulled >>

StatusRequests ==
    \/ Elapse
    \/ list_agents
    \/ \E a \in AgentIds :
          /\ register_agent(AgentRegisterRequest(a))
          /\ lastResponse' = Contact("register", a, 200)
    \/ \E a \in AgentIds :
          /\ heartbeat(a, HeartbeatPayload(a))
          /\ lastResponse' = Contact("heartbeat", a, heartbeat_response(a).status)
    \/ \E a \in AgentIds :
          /\ get_assignments(a, RegionOf[a])
          /\ lastResponse' = Contact("get_assignments", a,
                                     get_assignments_response(a, RegionOf[a]).status)

NextStatus == StatusRequests /\ UNCHANGED << sessions, agentVars, runnerVars, loopVars >>

SpecStatus == InitCP /\ [][NextStatus]_vars

\* the latest step was a request of agent a that was answered 200
Contacted(a) ==
    /\ lastResponse.answered
    /\ "agent_id" \in DOMAIN lastResponse
    /\ lastResponse.agent_id = a
    /\ lastResponse.status = 200

\* C23: list_agents reports ONLINE exactly for the agents seen at most the
\* threshold ago; a register, heartbeat or pull that was answered sets
\* last_seen_at to now and nothing else moves it; so the observed agent is ONLINE
\* as long as at most the threshold has passed since its last pull, and any agent
\* is OFFLINE once more than the threshold has passed since its last request.
C23_OnlineIffSeenWithinThreshold ==
    /\ [](\A a \in DOMAIN agents :
            /\ list_agents_response[a].status \in {"ONLINE", "OFFLINE"}
            /\ list_agents_response[a].status = "ONLINE"
                 <=> clock - agents[a].last_seen_at <= agent_offline_threshold_seconds
            /\ Contacted(a) => agents[a].last_seen_at = clock)
    /\ []((pulled.n = 1 /\ clock - pulled.at <= agent_offline_threshold_seconds)
            => list_agents_response[Observed].status = "ONLINE")
    /\ [][\A a \in DOMAIN agents :
            agents'[a].last_seen_at # agents[a].last_seen_at => Contacted(a)']_vars

\* the observed agent pulled, made no request since, and is listed OFFLINE one
\* second after the threshold has passed
C23_Witness ==
    /\ pulled.n = 1
    /\ agents[Observed].last_seen_at = pulled.at
    /\ clock = pulled.at + agent_offline_threshold_seconds + 1
    /\ list_agents_response[Observed].status = "OFFLINE"

(***************************************************************************)
(* The queue between a source's receiver and poll.  The receiver thread    *)
(* (syslog) or the ingest handler (HTTP listener) puts, the control thread *)
(* polls; every put_nowait and get_nowait is one step.                     *)
(***************************************************************************)
\* max_queue_size as the options of the source give it
QueueSizes == {0, 1, 2}

\* Queue.full(): a Queue of maxsize <= 0 is never full
Full(q) == max_queue_size > 0 /\ Len(q) >= max_queue_size

\* the events numbered from first to last, in that order
Arrivals(first, last) == [i \in 1..(last - first + 1) |-> [seq |-> first + i - 1, doc |-> 0]]

\* SyslogUdpSource._run: one datagram; put_nowait, and on Full the event is let go
Datagram ==
    /\ ingest = NoListener
    /\ emitted < MaxEvents
    /\ emitted' = emitted + 1
    /\ IF Full(queue)
       THEN /\ discarded' = discarded + 1
            /\ UNCHANGED queue
       ELSE /\ queue' = Append(queue, [seq |-> emitted + 1, doc |-> 0])
            /\ UNCHANGED discarded
    /\ lastResponse' = NoResponse
    /\ UNCHANGED << max_queue_size, polling, ingest >>

\* ingest: the request is parsed into n events
IngestBegin(n) ==
    /\ ingest = NotIngesting
    /\ emitted + n <= MaxEvents
    /\ emitted' = emitted + n
    /\ ingest' = [active |-> TRUE, carried |-> n, accepted |-> 0, broke |-> FALSE,
                  events |-> Arrivals(emitted + 1, emitted + n)]
    /\ lastResponse' = NoResponse
    /\ UNCHANGED << queue, max_queue_size, discarded, polling >>

\* ingest, for evt in events: put_nowait, accepted += 1; on Full the loop breaks
IngestPut ==
    /\ ingest.active
    /\ ingest.events # << >>
    /\ IF Full(queue)
       THEN /\ ingest' = [ingest EXCEPT !.events = << >>, !.broke = TRUE]
            /\ discarded' = discarded + Len(ingest.events)
            /\ UNCHANGED queue
       ELSE /\ ingest' = [ingest EXCEPT !.events = Tail(@), !.accepted = @ + 1]
            /\ queue' = Append(queue, Head(ingest.events))
            /\ UNCHANGED discarded
    /\ lastResponse' = NoResponse
    /\ UNCHANGED << emitted, max_queue_size, polling >>

\* ingest, after the loop: 429 queue full when accepted == 0, else 202
IngestAnswer ==
    /\ ingest.active
    /\ ingest.events = << >>
    /\ lastResponse' = [answered |-> TRUE, op |-> "ingest",
                        status |-> IF ingest.accepted = 0 THEN 429 ELSE 202,
                        carried |-> ingest.carried, accepted |-> ingest.accepted,
                        broke |-> ingest.broke]
    /\ ingest' = NotIngesting
    /\ UNCHANGED << queue, emitted, max_queue_size, discarded, polling >>

\* poll(max_events): out = []
PollBegin(max_events) ==
    /\ ~polling.active
    /\ polling' = [active |-> TRUE, max_events |-> max_events, out |-> << >>]
    /\ lastResponse' = NoResponse
    /\ UNCHANGED << queue, emitted, max_queue_size, discarded, ingest >>

\* poll, while len(out) < max_events: get_nowait returned an event
PollGet ==
    /\ polling.active
    /\ Len(polling.out) < polling.max_events
    /\ queue # << >>
    /\ polling' = [polling EXCEPT !.out = Append(@, Head(queue))]
    /\ queue' = Tail(queue)
    /\ lastResponse' = NoResponse
    /\ UNCHANGED << emitted, max_queue_size, discarded, ingest >>

\* poll: out is complete, or get_nowait raised Empty; return out
PollReturn ==
    /\ polling.active
    /\ Len(polling.out) >= polling.max_events \/ queue = << >>
    /\ lastResponse' = [answered |-> TRUE, op |-> "poll",
                        max_events |-> polling.max_events, out |-> polling.out]
    /\ polling' = NotPolling
    /\ UNCHANGED << queue, emitted, max_queue_size, discarded, ingest >>

\* the runner, the agent and the control plane take no part
SourceOnly ==
    /\ UNCHANGED << now, runVars, delivered, lastSend, sending >>
    /\ UNCHANGED << cpVars, agentVars, sessions, loopVars >>

NextSource ==
    \/ Datagram /\ SourceOnly
    \/ \E n \in 0..2 : IngestBegin(n) /\ SourceOnly
    \/ IngestPut /\ SourceOnly
    \/ IngestAnswer /\ SourceOnly
    \/ \E m \in 1..batch_max_events : PollBegin(m) /\ SourceOnly
    \/ PollGet /\ SourceOnly
    \/ PollReturn /\ SourceOnly

InitSource ==
    /\ TablesEmpty
    /\ AgentNotStarted
    /\ NoSessions
    /\ RunnerFresh
    /\ runner_enabled = FALSE
    /\ mode = "raw"
    /\ max_queue_size \in QueueSizes
    /\ discarded = 0
    /\ polling = NotPolling
    /\ ingest \in {NoListener, NotIngesting}   \* a syslog source or an HTTP listener

SpecSource == InitSource /\ [][NextSource]_vars

\* the events of a sequence are in arrival order
InArrivalOrder(evs) == \A i, j \in 1..Len(evs) : i < j => evs[i].seq < evs[j].seq

\* what holds of the queue whatever its size: an arrival that is not queued
\* leaves the queue as it is, the queue is in arrival order, and poll returns at
\* most max_events events in arrival order
QueueDropsNewest ==
    /\ [][discarded' > discarded => queue' = queue]_vars
    /\ [](InArrivalOrder(queue))
    /\ []((lastResponse.answered /\ lastResponse.op = "poll") =>
            /\ Len(lastResponse.out) <= lastResponse.max_events
            /\ InArrivalOrder(lastResponse.out))

\* C24: the queue never holds more than max_queue_size events.
C24_QueueNeverExceedsMaxSize == Len(queue) <= max_queue_size

\* what holds of a queue built with a positive max_queue_size
C24_PositiveSizeIsRespected == max_queue_size > 0 => Len(queue) <= max_queue_size

\* C25: every step that discards an event because the queue is full moves a
\* counter of the runner (the source has none).
C25_OverflowIsCounted ==
    [][discarded' > discarded => metrics' # metrics]_vars

\* the latest step answered an ingest request
Ingested == lastResponse.answered /\ lastResponse.op = "ingest"

\* C26: the listener answers 429 exactly when the request carried at least one
\* event and the queue was full for every one of them, and 202 whenever at
\* least one event was queued.
C26_TooManyRequestsIffAllRejected ==
    Ingested =>
        /\ lastResponse.status = 429
             <=> (lastResponse.carried >= 1 /\ lastResponse.accepted = 0
                  /\ lastResponse.broke)
        /\ lastResponse.accepted >= 1 => lastResponse.status = 202

\* what holds of a request that carried at least one event
C26_NonEmptyRequestAnswer ==
    (Ingested /\ lastResponse.carried >= 1) =>
        /\ lastResponse.status = 429 <=> (lastResponse.accepted = 0 /\ lastResponse.broke)
        /\ lastResponse.accepted >= 1 <=> lastResponse.status = 202

(***************************************************************************)
(* Normalizing and sanitizing a spec blob: the functions applied to the    *)
(* request bodies an operator can send, and to what was stored before.     *)
(***************************************************************************)
\* the mappings at the bottom of a request body
Bases == { CanonSyslog, CanonTail, NoDest, EmptyDict,
           ("name" :> Scalar("x")) @@ ("batch_max_events" :> Scalar(5)),
           ("spec" :> Scalar("s")) @@ ("source" :> Sec("file_tail", 0)),
           ("processor" :> Sec("raw", 0)) @@ ("enabled" :> Scalar(1)) }

\* {"spec": s}
Wrap(ss) == "spec" :> Map(ss)

\* {"spec": s, "pipeline_id": ...}: a wrapper that carries a key beside spec
WrapWithId(ss) == ("spec" :> Map(ss)) @@ ("pipeline_id" :> Scalar("p"))

\* request bodies wrapped in no, one, two and three spec levels
Wrapped0 == Bases
Wrapped1 == { Wrap(b) : b \in Bases } \cup { WrapWithId(b) : b \in Bases }
Wrapped2 == { Wrap(w) : w \in Wrapped1 }
Wrapped3 == { Wrap(w) : w \in { Wrap(Wrap(b)) : b \in Bases } }
SpecInputs == Wrapped0 \cup Wrapped1 \cup Wrapped2 \cup Wrapped3

\* the call of _normalize_pipeline_spec_dict on a body, and what it returned
Normalizing(body) ==
    /\ lastResponse' = [answered |-> TRUE, op |-> "normalize", spec |-> body,
                        out |-> _normalize_pipeline_spec_dict(body)]
    /\ UNCHANGED cpVars

\* POST /v1/pipelines with the body
Storing(n, body) ==
    /\ create_pipeline(n, TRUE, body)
    /\ lastResponse' = [answered |-> TRUE, op |-> "create_pipeline", spec |-> body,
                        pipeline_id |-> Len(pipelines) + 1]

\* GET /v1/pipelines, then PUT /v1/pipelines/{pid} with the spec that was listed
Resubmitting(pid) ==
    /\ pid \in DOMAIN pipelines
    /\ update_pipeline(pid, pipelines[pid].name, pipelines[pid].enabled,
                       pipelines[pid].spec)
    /\ lastResponse' = [answered |-> TRUE, op |-> "update_pipeline",
                        spec |-> pipelines[pid].spec, pipeline_id |-> pid]

NextSanitize ==
    \/ \E body \in SpecInputs :
          Normalizing(body) /\ UNCHANGED << sessions, agentVars, runnerVars, loopVars >>
    \/ \E n \in Names, body \in SpecInputs :
          Storing(n, body) /\ UNCHANGED << sessions, agentVars, runnerVars, loopVars >>
    \/ \E pid \in 1..MaxPipelines :
          Resubmitting(pid) /\ UNCHANGED << sessions, agentVars, runnerVars, loopVars >>

SpecSanitize == InitCP /\ [][NextSanitize]_vars

\* the keys that do not belong in the stored blob
Stripped == {"pipeline_id", "name", "enabled", "version"}

\* d without the stripped keys
Strip(d) == [x \in (DOMAIN d) \ Stripped |-> d[x]]

RECURSIVE Innermost(_)
\* the mapping under all the spec levels of a body
Innermost(d) ==
    IF (~LooksCanonical(d)) /\ Has(d, "spec") /\ IsDict(d["spec"])
    THEN Innermost(d["spec"].m)
    ELSE d

\* the latest step sent a spec to be stored as pipeline pid
Stored(pid) ==
    /\ lastResponse.answered
    /\ lastResponse.op \in {"create_pipeline", "update_pipeline"}
    /\ lastResponse.pipeline_id = pid

\* C27: sanitizing what sanitize returned changes nothing, so a stored spec that
\* is sent again is stored as it was; and what is stored for a body is the
\* mapping under all its spec levels, without exactly the stripped keys.
C27_SanitizeIsIdempotent ==
    \A pid \in DOMAIN pipelines :
        /\ _sanitize_pipeline_spec_dict(pipelines[pid].spec) = pipelines[pid].spec
        /\ Stored(pid) => pipelines[pid].spec = Strip(Innermost(lastResponse.spec))

\* what holds of the bodies wrapped in at most two spec levels
C27_IdempotentUpToTwoLevels ==
    \A pid \in DOMAIN pipelines :
        (Stored(pid) /\ lastResponse.spec \notin Wrapped3) =>
            /\ _sanitize_pipeline_spec_dict(pipelines[pid].spec) = pipelines[pid].spec
            /\ pipelines[pid].spec = Strip(Innermost(lastResponse.spec))

\* the bodies {spec: X} and {spec: {spec: X}} of a canonical mapping X
OnceOrTwice(x) == { Wrap(x), Wrap(Wrap(x)) }

\* C28: a canonical mapping wrapped once or twice normalizes to the mapping
\* itself, which is what the mapping itself normalizes to.
C28_WrappersNormalizeToInner ==
    (lastResponse.answered /\ lastResponse.op = "normalize") =>
        \A x \in Bases :
            (LooksCanonical(x) /\ lastResponse.spec \in OnceOrTwice(x)) =>
                /\ lastResponse.out = x
                /\ lastResponse.out = _normalize_pipeline_spec_dict(x)

\* {spec: {spec: {source, destination}}} has just been normalized to the inner
\* mapping
C28_Witness ==
    /\ lastResponse.answered
    /\ lastResponse.op = "normalize"
    /\ lastResponse.spec = Wrap(Wrap(CanonSyslog))
    /\ lastResponse.out = CanonSyslog

(***************************************************************************)
(* The control thread.  run_forever is the only thread that ticks: inside  *)
(* a pass it is in one runner's tick at a time, and a tick that calls      *)
(* destination.send is over when the call returns or times out.            *)
(***************************************************************************)
\* HttpDestination: timeout_seconds, 5.0 when the options do not set it
SendTimeout == 5 * Second

\* run_forever: runners = list(self._pipelines.values()); the for loop begins
PassBegin ==
    /\ agentPc = "loop"
    /\ ~thread.active
    /\ runners # << >>
    /\ thread' = [thread EXCEPT !.active = TRUE, !.todo = Snapshot(DOMAIN runners)]
    /\ UNCHANGED << agentVars, tickLog >>

\* r.tick() of the next runner begins and returns (or raises) without waiting
TickReturns ==
    /\ agentPc = "loop"
    /\ thread.active
    /\ thread.sending = 0
    /\ thread.todo # << >>
    /\ thread' = [thread EXCEPT !.todo = Tail(@),
                                !.tickedAt[Head(thread.todo)] = now]
    /\ UNCHANGED << agentVars, tickLog >>

\* r.tick() of the next runner begins and calls destination.send, which does
\* not return yet
SendBlocks ==
    /\ agentPc = "loop"
    /\ thread.active
    /\ thread.sending = 0
    /\ thread.todo # << >>
    /\ thread' = [thread EXCEPT !.sending = Head(thread.todo), !.since = now,
                                !.tickedAt[Head(thread.todo)] = now]
    /\ UNCHANGED << agentVars, tickLog >>

\* destination.send returns or raises (at the latest when its timeout is over),
\* and the tick returns
SendReturns ==
    /\ agentPc = "loop"
    /\ thread.active
    /\ thread.sending # 0
    /\ thread' = [thread EXCEPT !.sending = 0, !.todo = Tail(@)]
    /\ UNCHANGED << agentVars, tickLog >>

\* the for loop is over; time.sleep(0.05)
PassEnd ==
    /\ agentPc = "loop"
    /\ thread.active
    /\ thread.sending = 0
    /\ thread.todo = << >>
    /\ thread' = BetweenPasses(thread.tickedAt)
    /\ UNCHANGED << agentVars, tickLog >>

\* time passes; a pending send does not outlast its timeout
TimePasses ==
    /\ thread.sending # 0 => now - thread.since < SendTimeout
    /\ Advance

\* the process gets SIGINT or SIGTERM: KeyboardInterrupt is no Exception, no
\* handler of run_forever or of cli.run catches it, and the process ends where
\* it is
Interrupt ==
    /\ agentPc = "loop"
    /\ agentPc' = "terminated"
    /\ UNCHANGED << etagApplied, runners, receivers, lastReconcile, loopVars >>

\* run_forever before its for loop: the pull cycle of the same thread
PullBetweenPasses == ~thread.active /\ PullCycle

NextSerial ==
    \/ AgentStart /\ UNCHANGED << runnerVars, txnVars, loopVars >>
    \/ PullBetweenPasses
    \/ AssigningBoth /\ UNCHANGED << agentVars, runnerVars, txnVars, loopVars >>
    \/ PassBegin /\ UNCHANGED << cpVars, runnerVars, txnVars >>
    \/ TickReturns /\ UNCHANGED << cpVars, runnerVars, txnVars >>
    \/ SendBlocks /\ UNCHANGED << cpVars, runnerVars, txnVars >>
    \/ SendReturns /\ UNCHANGED << cpVars, runnerVars, txnVars >>
    \/ PassEnd /\ UNCHANGED << cpVars, runnerVars, txnVars >>
    \/ TimePasses /\ UNCHANGED << cpVars, agentVars, txnVars, loopVars >>
    \/ Interrupt /\ UNCHANGED << cpVars, runnerVars, txnVars >>

SpecSerial == InitCP /\ [][NextSerial]_vars

\* C29: a pending send delays only its own runner: when a send has been pending
\* for a second, every other runner has been ticked since the send began.
C29_PendingSendDelaysOnlyItsRunner ==
    (agentPc = "loop" /\ thread.sending # 0 /\ now - thread.since >= Second) =>
        \A q \in (DOMAIN runners) \ {thread.sending} :
            thread.tickedAt[q] > thread.since

\* C30: the agent terminates only after a shutdown in which no tick is cut
\* short, no send is left pending and every source is closed.
C30_TerminatesOnlyAfterDrainAndClose ==
    agentPc = "terminated" =>
        /\ ~thread.active
        /\ thread.sending = 0
        /\ receivers = {}

\* what holds instead of C29: while a send is pending no tick begins
NoTickWhileSendPending ==
    [][thread.sending # 0 => thread'.tickedAt = thread.tickedAt]_vars

(***************************************************************************)
(* The backoff of a runner whose destination keeps rejecting: one batch is *)
(* sent again and again, MaxAttempts times at most, and time goes on while *)
(* the batch waits.                                                        *)
(***************************************************************************)
MaxAttempts == 7

\* r.tick() while the destination has rejected fewer than MaxAttempts calls in a row
BackoffTick ==
    \E ok \in BOOLEAN,
       answers \in [Lines(poll(Frame, batch_max_events)) -> 0..MaxDocs] :
        /\ ok \/ send_attempt < MaxAttempts
        /\ TickWith(ok, answers)

\* what a pass of run_forever takes while the batch waits: the sleep of the loop
\* and the ticks of the runners, never the same twice
PassTimes == { Second \div 4, Second \div 4 + Second \div 8 }

\* run_forever: a pass goes by while the runner waits for next_send_at
Sleep ==
    /\ inflight # << >>
    /\ now < next_send_at
    /\ \E d \in PassTimes : now' = now + d
    /\ lastSend' = NoCall
    /\ UNCHANGED << queue, emitted, qVars, runVars, delivered, sending >>

InitBackoff ==
    /\ InitRunner
    /\ runner_enabled
    /\ mode = "raw"

NextBackoff ==
    \/ BackoffTick /\ UNCHANGED << cpVars, agentVars, txnVars, loopVars >>
    \/ Receive /\ UNCHANGED << cpVars, agentVars, txnVars, loopVars >>
    \/ Sleep /\ UNCHANGED << cpVars, agentVars, txnVars, loopVars >>

SpecBackoff == InitBackoff /\ [][NextBackoff]_vars

\* min(cap, base * 2^(k-1)) with base = 0.5 s and cap = 10 s
BackoffFloor(k) == Min(10 * Second, (Second \div 2) * Pow2(k - 1))

\* the readings of time.monotonic() within a second
Readings == 0..(Second - 1)

\* jitter = (time.monotonic() % 1.0) * 0.25, of the reading t
Jitter(t) == (t % Second) \div 4

C32_WitnessJitter ==
    /\ lastSend.made /\ ~lastSend.ok
    /\ send_attempt = 3
    /\ next_send_at - now > BackoffFloor(3)

(***************************************************************************)
(* The flush rule and the retry gate of a tick (SpecRunner).               *)
(***************************************************************************)
\* the step is a tick of the runner
TickStep ==
    \E ok \in BOOLEAN,
       answers \in [Lines(poll(Frame, batch_max_events)) -> 0..MaxDocs] :
        TickWith(ok, answers)

\* _flush_if_needed does not return early: the buffer the poll left holds events,
\* and batch_max_events of them or the flush is batch_max_seconds old
FlushDue ==
    LET polled_ == poll(Frame, batch_max_events)
    IN  /\ polled_.buffer # << >>
        /\ \/ Len(polled_.buffer) >= batch_max_events
           \/ now - last_flush >= batch_max_seconds

\* C33 (as claimed): in a tick of an enabled runner with nothing inflight the
\* buffer, after the poll, is cut into a batch that is made inflight and sent at
\* once exactly when it holds events and either batch_max_events of them or the
\* last flush is batch_max_seconds old; otherwise the tick leaves the polled
\* buffer and the empty inflight as they are and sends nothing.
C33_FlushIffDue ==
    [][ (runner_enabled /\ inflight = << >> /\ TickStep) =>
          IF FlushDue
          THEN /\ buffer' = << >>
               /\ last_flush' = now
               /\ lastSend'.made
               /\ lastSend'.batch # << >>
               /\ inflight' = IF lastSend'.ok THEN << >> ELSE lastSend'.batch
          ELSE /\ buffer' = poll(Frame, batch_max_events).buffer
               /\ inflight' = << >>
               /\ ~lastSend'.made ]_vars

\* C33, what holds: the same with the raw processor, where the batch sent is the
\* polled buffer itself.
C33_RawFlushIffDue ==
    [][ (runner_enabled /\ mode = "raw" /\ inflight = << >> /\ TickStep) =>
          IF FlushDue
          THEN /\ buffer' = << >>
               /\ last_flush' = now
               /\ lastSend'.made
               /\ lastSend'.batch = poll(Frame, batch_max_events).buffer
               /\ inflight' = IF lastSend'.ok THEN << >> ELSE lastSend'.batch
          ELSE /\ buffer' = poll(Frame, batch_max_events).buffer
               /\ inflight' = << >>
               /\ ~lastSend'.made ]_vars

\* the gate of a tick: a batch is inflight and its retry is not due
RetryGated == runner_enabled /\ inflight # << >> /\ now < next_send_at

\* C34: while a batch is inflight and now < next_send_at, a tick calls neither
\* destination.send nor source.poll and leaves the buffer, inflight, send_attempt,
\* next_send_at, the counters and the source queue as they are; so no send of a
\* batch that failed is made before the time its failure scheduled.
C34_RetryGate ==
    [][ /\ (RetryGated /\ TickStep) =>
              /\ ~lastSend'.made
              /\ queue' = queue
              /\ << buffer', inflight', send_attempt', next_send_at' >>
                    = << buffer, inflight, send_attempt, next_send_at >>
              /\ metrics' = metrics
              /\ last_err' = last_err
              /\ delivered' = delivered
        /\ (inflight # << >> /\ send_attempt >= 1 /\ lastSend'.made) =>
              now >= next_send_at ]_vars

\* a tick has been made in the gate: a send failed at this reading, nothing has
\* arrived since, and the call is no longer the latest step
C34_Witness ==
    /\ RetryGated
    /\ send_attempt >= 2
    /\ ~lastSend.made
    /\ next_send_at = now + _compute_backoff_seconds(send_attempt, now)
    /\ queue = << >>
    /\ metrics.received = emitted
    /\ mode = "raw"

\* a retry has been made, and accepted, once its time had come
C34_WitnessRetry ==
    /\ lastSend.made
    /\ lastSend.ok
    /\ metrics.send_failures >= 1
    /\ metrics.sent_batches = 1

\* C38: in every state of a runner a non-empty inflight goes with an empty buffer,
\* and an empty inflight with send_attempt = 0.
C38_InflightExcludesBuffer ==
    /\ inflight # << >> => buffer = << >>
    /\ inflight = << >> => send_attempt = 0

\* both cases have happened: a batch is inflight after failed sends while events
\* wait in the source, after an earlier batch was sent and the attempts reset
C38_Witness ==
    /\ inflight # << >>
    /\ send_attempt >= 1
    /\ queue # << >>
    /\ metrics.sent_batches >= 1

\* events are buffered with nothing inflight, after a batch failed and was sent
C38_WitnessBuffered ==
    /\ inflight = << >>
    /\ buffer # << >>
    /\ metrics.send_failures >= 1
    /\ metrics.sent_batches >= 1

(***************************************************************************)
(* The size of the batches of a runner with the raw processor: more events *)
(* arrive than two polls can take.                                         *)
(***************************************************************************)
MaxArrivals == 5

\* SyslogUdpSource._run: a datagram arrives and is queued
ReceiveMore ==
    /\ emitted < MaxArrivals
    /\ emitted' = emitted + 1
    /\ queue' = Append(queue, [seq |-> emitted + 1, doc |-> 0])
    /\ lastSend' = NoCall
    /\ UNCHANGED << now, qVars, runVars, delivered, sending >>

NextBatch ==
    \/ RunnerTick /\ UNCHANGED << cpVars, agentVars, txnVars, loopVars >>
    \/ ReceiveMore /\ UNCHANGED << cpVars, agentVars, txnVars, loopVars >>
    \/ Advance /\ UNCHANGED << cpVars, agentVars, txnVars, loopVars >>

SpecBatch == InitBackoff /\ [][NextBatch]_vars

\* C39: with the raw processor every batch passed to destination.send holds at
\* least 1 and at most 2 * batch_max_events - 1 events; a buffer that a tick did
\* not flush holds fewer than batch_max_events events.
C39_BatchSizeBounds ==
    /\ lastSend.made =>
          /\ Len(lastSend.batch) >= 1
          /\ Len(lastSend.batch) <= 2 * batch_max_events - 1
    /\ Len(buffer) < batch_max_events
    /\ Len(inflight) <= 2 * batch_max_events - 1

\* a batch of 2 * batch_max_events - 1 events has been sent while more events
\* wait in the source
C39_Witness ==
    /\ lastSend.made
    /\ Len(lastSend.batch) = 2 * batch_max_events - 1
    /\ Len(lastSend.batch) > batch_max_events
    /\ queue # << >>

\* a batch of one event has been sent (a flush by age)
C39_WitnessOne ==
    /\ lastSend.made
    /\ Len(lastSend.batch) = 1

(***************************************************************************)
(* update_pipeline requests served at the same time (api.py, db.py).  Each *)
(* request runs in its own session_scope on an engine created without an   *)
(* isolation level: session.get reads the committed row without locking    *)
(* it, the attributes are set on the loaded object, and the UPDATE that    *)
(* commit flushes carries the values computed from what was read.          *)
(***************************************************************************)
\* update_pipeline up to the end of the with block: session.get, 404 or the new
\* values of the row, version among them, computed from the row as read
BeginUpdatePipeline(k, pid, name, enabled, spec) ==
    /\ sessions[k] = Idle
    /\ IF pid \notin DOMAIN pipelines
       THEN /\ lastResponse' = [answered |-> TRUE, status |-> 404,
                                detail |-> "pipeline_not_found"]
            /\ UNCHANGED sessions
       ELSE /\ pipelines[pid].version < MaxVersion
            /\ sessions' = [sessions EXCEPT ![k] =
                              [phase |-> "update", pipeline_id |-> pid,
                               name |-> name, enabled |-> enabled,
                               spec |-> _sanitize_pipeline_spec_dict(spec),
                               version |-> pipelines[pid].version + 1,
                               updated_at |-> clock]]
            /\ lastResponse' = NoResponse
    /\ UNCHANGED cpVars

\* session_scope: session.commit() flushes the UPDATE of the row, and the request
\* answers {"ok": true}
CommitUpdatePipeline(k) ==
    /\ sessions[k] # Idle
    /\ pipelines' = [pipelines EXCEPT
                        ![sessions[k].pipeline_id].name = sessions[k].name,
                        ![sessions[k].pipeline_id].enabled = sessions[k].enabled,
                        ![sessions[k].pipeline_id].spec = sessions[k].spec,
                        ![sessions[k].pipeline_id].version = sessions[k].version,
                        ![sessions[k].pipeline_id].updated_at = sessions[k].updated_at]
    /\ updates' = [updates EXCEPT ![sessions[k].pipeline_id] = @ + 1]
    /\ sessions' = [sessions EXCEPT ![k] = Idle]
    /\ lastResponse' = [answered |-> TRUE, status |-> 200,
                        pipeline_id |-> sessions[k].pipeline_id]
    /\ UNCHANGED << clock, agents, assignments, nextAsgId, pulled >>

\* the operator's other requests
CreatingPipelines ==
    \/ \E n \in Names, b \in Bodies : create_pipeline(n, b.enabled, b.spec)
    \/ Tick

NextUpdates ==
    \/ \E k \in 1..MaxSessions, p \in 1..MaxPipelines, n \in Names, b \in Bodies :
          BeginUpdatePipeline(k, p, n, b.enabled, b.spec)
             /\ UNCHANGED << agentVars, runnerVars, loopVars >>
    \/ \E k \in 1..MaxSessions :
          CommitUpdatePipeline(k) /\ UNCHANGED << agentVars, runnerVars, loopVars >>
    \/ CreatingPipelines /\ lastResponse' = NoResponse
                         /\ UNCHANGED << sessions, agentVars, runnerVars, loopVars >>

SpecUpdates == InitCP /\ [][NextUpdates]_vars

\* C35 (as claimed): after n update_pipeline calls on a pipeline have succeeded,
\* overlapping or not, its version is 1 + n.
C35_VersionCountsOverlappingUpdates ==
    \A p \in DOMAIN pipelines : pipelines[p].version = 1 + updates[p]

\* C35, what holds: the version is 1 plus the number of successful updates whose
\* transaction began after every earlier successful update had committed; it
\* never exceeds 1 + n.
C35_VersionNeverAhead ==
    \A p \in DOMAIN pipelines :
        /\ pipelines[p].version <= 1 + updates[p]
        /\ updates[p] >= 1 => pipelines[p].version >= 2

(***************************************************************************)
(* The source types of the runner and of the agent-facing DTO (SpecRead).  *)
(***************************************************************************)
\* PipelineRunner._build_source: the types it builds a source for
RunnerSourceTypes == {"file_tail", "syslog_udp", "http_listener"}

\* PipelineRunner._build_destination: the types it builds a destination for
RunnerDestinationTypes == {"file", "http", "syslog_udp"}

\* every pipeline assigned to (a, r) is stored with a source and a destination of
\* a type the runner builds
AllRunnable(a, r) ==
    \A i \in 1..Len(Selected(a, r)) :
        LET sp == _normalize_pipeline_spec_dict(pipelines[Selected(a, r)[i].pipeline_id].spec)
        IN  /\ Truthy(sp, "source")
            /\ Truthy(sp, "destination")
            /\ sp["source"].type \in RunnerSourceTypes
            /\ sp["destination"].type \in RunnerDestinationTypes

\* C36 (as claimed): a pull of a registered agent whose assigned pipelines are all
\* stored with a source and a destination of a type the runner builds succeeds.
C36_RunnableSpecsArePulled ==
    (Observed \in DOMAIN agents /\ AllRunnable(Observed, RegionOf[Observed])) =>
        PullNow.status = 200

\* C36, what holds: it succeeds when the source types are those of the DTO,
\* file_tail and syslog_udp.
C36_DtoSpecsArePulled ==
    ( /\ Observed \in DOMAIN agents
      /\ AllRunnable(Observed, RegionOf[Observed])
      /\ \A i \in 1..Len(Selected(Observed, RegionOf[Observed])) :
            _normalize_pipeline_spec_dict(
                pipelines[Selected(Observed, RegionOf[Observed])[i].pipeline_id].spec
            )["source"].type \in SourceTypes ) =>
        PullNow.status = 200

(***************************************************************************)
(* The applied etag and the runners of the agent (SpecAgent).              *)
(***************************************************************************)
\* C37 (as claimed): whenever last_applied_etag is the etag of the response the
\* agent pulled last, the running pipeline ids are the enabled pipelines of that
\* response, also when a runner's constructor raised while it was reconciled.
C37_AppliedEtagMeansReconciled ==
    (lastReconcile.outcome # "none"
        /\ etagApplied = SomeEtag(lastReconcile.resp.etag)) =>
        DOMAIN runners = EnabledIn(lastReconcile.resp)

\* C37, what holds: last_applied_etag is the etag of the response pulled last
\* after every reconcile, completed or not.
C37_EtagIsSetByEveryReconcile ==
    lastReconcile.outcome # "none" =>
        etagApplied = SomeEtag(lastReconcile.resp.etag)

(***************************************************************************)
(* The agent and one of its runners together: the runner of the pipeline   *)
(* Watched is built and removed by the agent's reconciles, and is ticked   *)
(* for as long as it is in the agent's map.  The runner variables are the  *)
(* fields of that PipelineRunner object; delivered is what its destination *)
(* has accepted, whichever object sent it.                                 *)
(***************************************************************************)
Watched == 1

\* self._pipelines[pid] = PipelineRunner(rt, runner_spec, self.retry): the fields
\* of the object just constructed
RunnerConstructed ==
    /\ runner_enabled' = TRUE
    /\ mode' = "raw"
    /\ queue' = << >>
    /\ buffer' = << >>
    /\ last_flush' = now
    /\ send_attempt' = 0
    /\ next_send_at' = 0
    /\ inflight' = << >>
    /\ metrics' = ZeroMetrics
    /\ last_err' = "None"
    /\ sending' = [base |-> ZeroMetrics, failed |-> 0]
    /\ UNCHANGED << now, emitted, qVars, delivered >>

\* del self._pipelines[pid]: the object leaves the map as it is, with what it
\* holds, and is ticked no more
RunnerDeleted ==
    /\ runner_enabled' = FALSE
    /\ UNCHANGED << now, mode, queue, emitted, qVars, buffer, last_flush, send_attempt,
                    next_send_at, inflight, metrics, last_err, delivered, sending >>

\* run_forever: the pull is due; the reconcile acts on the watched runner
ReconcilePull ==
    /\ AgentPull
    /\ lastSend' = NoCall
    /\ IF Watched \in DOMAIN runners' /\ Watched \notin DOMAIN runners
       THEN RunnerConstructed
       ELSE IF Watched \in DOMAIN runners /\ Watched \notin DOMAIN runners'
       THEN RunnerDeleted
       ELSE UNCHANGED << srcVars, runVars, delivered, sending >>
    /\ UNCHANGED << txnVars, loopVars >>

\* run_forever: the tick of the watched runner, when it is in the snapshot
TickWatched ==
    /\ agentPc = "loop"
    /\ Watched \in DOMAIN runners
    /\ RunnerTick
    /\ UNCHANGED << cpVars, agentVars, txnVars, loopVars >>

\* an event reaches the source of the watched runner
ReceiveWatched ==
    /\ Watched \in DOMAIN runners
    /\ Receive
    /\ UNCHANGED << cpVars, agentVars, txnVars, loopVars >>

\* the operator assigns the watched pipeline, takes it away and disables it
Reassigning ==
    \/ \E n \in Names, b \in AgentBodies :
          b.enabled /\ create_pipeline(n, b.enabled, b.spec)
    \/ \E n \in Names, b \in AgentBodies :
          update_pipeline(Watched, n, b.enabled, b.spec)
    \/ create_assignment(Self, SelfRegion, Watched)
    \/ \E id \in 1..MaxAssignments : delete_assignment(id)

NextReconfigure ==
    \/ AgentStart /\ UNCHANGED << runnerVars, txnVars, loopVars >>
    \/ ReconcilePull
    \/ TickWatched
    \/ ReceiveWatched
    \/ Reassigning /\ UNCHANGED << agentVars, runnerVars, txnVars, loopVars >>

SpecReconfigure == InitCP /\ [][NextReconfigure]_vars

\* the pull that is due answers 200 with the etag applied last
FastPath ==
    /\ agentPc = "loop"
    /\ get_assignments_response(Self, SelfRegion).status = 200
    /\ etagApplied = SomeEtag(get_assignments_response(Self, SelfRegion).etag)

\* C31: a reconcile of a response whose etag is last_applied_etag changes nothing:
\* the runner map, the sources that receive, the watched runner's buffer,
\* inflight, counters, retry schedule and source queue, and last_applied_etag are
\* as they were.
C31_FastPathIsNoOp ==
    [][ (FastPath /\ ReconcilePull) =>
          /\ lastReconcile'.outcome = "noop"
          /\ UNCHANGED << etagApplied, runners, receivers >>
          /\ UNCHANGED << runner_enabled, mode, queue, buffer, last_flush,
                          send_attempt, next_send_at, inflight, metrics, last_err,
                          delivered >> ]_vars

\* a pull has gone the fast path while the watched runner holds a batch that
\* failed and events in its buffer or its source
C31_Witness ==
    /\ lastReconcile.outcome = "noop"
    /\ Watched \in DOMAIN runners
    /\ inflight # << >>
    /\ send_attempt >= 1
    /\ queue # << >>
    /\ ~lastSend.made

\* the events a runner holds
Held == buffer \o inflight

\* C40 (as claimed): the events in the buffer or inflight of a runner when a
\* reconcile removes it are delivered to the destination or counted as dropped.
C40_RemovalLosesNothingSilently ==
    [][ (Watched \in DOMAIN runners /\ Watched \notin DOMAIN runners') =>
          LET accepted == Flatten(delivered')
              lost == { i \in 1..Len(Held) :
                          \A j \in 1..Len(accepted) : accepted[j] # Held[i] }
          IN  Cardinality(lost) <= Drops' - Drops ]_vars

\* C40, what holds: the removed runner holds what it held, and nothing ticks it.
C40_RemovedRunnerIsLeftAsItIs ==
    [][ (Watched \notin DOMAIN runners /\ Watched \notin DOMAIN runners') =>
          UNCHANGED << buffer, inflight, metrics, delivered >> ]_vars
====
